---- MODULE Spec2Model ----
(***************************************************************************)
(* gofile-uploader: the upload scheduler of api.py (GofileIOAPI), the      *)
(* response check shared by its remote operations, and the client pipeline *)
(* of gofile_uploader.py (GofileIOUploader, async_main).                   *)
(*                                                                         *)
(* Specifications:                                                         *)
(*   Spec        GofileIOAPI.upload_files / upload_file of api.py          *)
(*   SpecLive    the same, every ready coroutine and every request served  *)
(*   SpecResp    one remote operation of api.py and its response check     *)
(*   SpecFolder  GofileIOUploader.get_folder_id of gofile_uploader.py      *)
(*   SpecRecon   GofileIOUploader.upload_files, run after run              *)
(*   SpecMain    async_main and the connections of one run                 *)
(*   SpecCli     cli() of cli.py: command line, local config, defaults     *)
(*   SpecInit    GofileIOAPI.__init__ and init of api.py                   *)
(***************************************************************************)
EXTENDS Integers, Sequences, FiniteSets, TLC

VARIABLES
    \* ---- scheduler (api.py) ----
    connections,      \* options["connections"]: the semaphore's initial value
    retriesLimit,     \* options["retries"]
    exists,           \* exists[t]: file_path.exists() when upload_file(t) starts
    pc,               \* pc[t]: where the coroutine upload_file(t) stands
    retries,          \* retries[t]: the local counter `retries`
    attempts,         \* attempts[t]: server-discovery requests issued by t
    posts,            \* posts[t]: upload POSTs issued by t
    sem,              \* self.sem: free slots of the semaphore
    server_sessions,  \* self.server_sessions: server name -> connection id (0: none)
    sessionsMade,     \* connections created so far (the next connection id)
    taskSession,      \* taskSession[t]: the connection t posts on (0: none)
    servers,          \* servers[t]: the server names get_servers gave t (None: none)
    file_metadata,    \* file_metadata[t]: the record upload_file(t) builds
    returned,         \* returned[t]: what upload_file(t) returned
    history,          \* options["history"]["uploads"]
    gather,           \* upload_files: "running", "returned", "raised", "aborted"
    responses,        \* the list upload_files returns
    \* ---- one remote operation and its response (api.py) ----
    op,               \* the remote operation that was called
    answer,           \* what the service answered
    outcome,          \* "pending", then how the operation ended
    \* ---- folder resolution (gofile_uploader.py) ----
    token,            \* self.api.token is set
    wt,               \* self.api.wt is set
    is_premium,       \* self.api.is_premium
    root_folder_id,   \* self.api.root_folder_id (0: None)
    rootChildren,     \* the service: the root folder's children, in listing order
    cachedListing,    \* the service: its cached copy of the root listing
    nextId,           \* the service: the id the next created folder gets
    created_folders,  \* self.api.created_folders: the names recorded
    resolutions,      \* the calls of get_folder_id so far, with their results
    createCalls,      \* create-folder requests sent so far
    nested,           \* the folders two or more levels below the root: [id, name, parent]
    \* ---- reconciliation and upload (gofile_uploader.py) ----
    content,          \* content[p]: the hash of the bytes of local path p
    is_file,          \* is_file[p]: path.is_file()
    md5_sums,         \* options["config"]["history"]["md5_sums"] ("absent": no entry)
    make_public,      \* self.make_public
    rename_existing,  \* options["rename_existing"]
    targetIsRoot,     \* folder_id == self.api.root_folder_id
    remote,           \* the service: the target folder, [children, public]
    cachedFolder,     \* the service: its cached copy of that listing
    remoteNextId,     \* the service: the id the next uploaded file gets
    run,              \* which run of upload_files this is
    phase,            \* where upload_files stands
    folder_id_contents, \* the listing upload_files received
    sums,             \* paths_and_md5_sums
    paths,            \* the paths still to upload after the skip
    pending,          \* the upload tasks not yet finished
    renameQueue,      \* the renames still to request
    renameFailed,     \* the remote entries whose rename request failed
    uploaded,         \* the paths whose upload succeeded in this run
    transfers,        \* transfers[r]: upload POSTs sent in run r
    publicCalls,      \* publicCalls[r]: make-public updates sent in run r
    cleanRuns,        \* the finished runs in which no step and no upload failed
    staleRuns,        \* the runs whose listing was not the folder's current content
    results,          \* the list self.api.upload_files returned to upload_files
    checksums,        \* the run's get_md5_sums_for_files call: the cache it found, the files it read
    use_config,       \* options["use_config"]
    persisted,        \* the md5_sums of the config file on disk
    renameResults,    \* the run's rename requests so far, each with its outcome
    \* The program's run and its connections (gofile_uploader.py: async_main).
    args,             \* the command line: token given, dry_run, kind of folder argument
    step,             \* where async_main is
    rootKnown,        \* self.api.root_folder_id was set by init
    apiSession,       \* self.api.session: [closed, closeCalls]
    hostSessions,     \* self.api.server_sessions: per host [opened, closed, closeCalls]
    tasksLeft,        \* the upload tasks gather is still waiting for
    sent,             \* what the run has done remotely and to the upload history
    failedAt,         \* the step of upload_files that raised, "none" if none did
    initResult,       \* how GofileIOUploader.init went, "none" before it ran
    \* ---- option resolution (cli.py: cli) ----
    argv,             \* what the command line gives for each option ("unset": not given)
    config_file,      \* $HOME/.config/gofile-upload/config.json: missing, invalid, or its keys
    cliStep,          \* where cli() is
    parsed,           \* vars(args) after parser.parse_args
    loaded_options,   \* the dictionary loaded_options
    combined_options, \* the dictionary combined_options
    configRead,       \* load_config_file was called
    \* ---- account set-up (api.py: GofileIOAPI.__init__, init) ----
    initPc,           \* where init() is
    account,          \* options["token"], account_id, wt, root_folder_id, is_premium
    sessions,         \* the aiohttp sessions: state, Authorization header, requests sent
    self_session,     \* the session self.session refers to
    init_response     \* the response init received last (temporary_account, account_id, account)

schedVars == <<connections, retriesLimit, exists, pc, retries, attempts, posts, sem,
               server_sessions, sessionsMade, taskSession, servers, file_metadata,
               returned, history, gather, responses>>

respVars == <<op, answer, outcome>>

folderVars == <<token, wt, is_premium, root_folder_id, rootChildren, cachedListing,
                nextId, created_folders, resolutions, createCalls, nested>>

reconVars == <<content, is_file, md5_sums, make_public, rename_existing, targetIsRoot,
               remote, cachedFolder, remoteNextId, run, phase, folder_id_contents, sums,
               paths, pending, renameQueue, renameFailed, uploaded, transfers,
               publicCalls, cleanRuns, staleRuns, results, checksums, use_config, persisted, renameResults>>

mainVars == <<args, step, rootKnown, apiSession, hostSessions, tasksLeft, sent, failedAt, initResult>>

cliVars == <<argv, config_file, cliStep, parsed, loaded_options, combined_options,
             configRead>>

initVars == <<initPc, account, sessions, self_session, init_response>>

vars == <<schedVars, respVars, folderVars, reconVars, mainVars, cliVars, initVars>>

\* What the scheduler's steps leave alone.
notSched == <<respVars, folderVars, reconVars, mainVars, cliVars, initVars>>
notResp == <<schedVars, folderVars, reconVars, mainVars, cliVars, initVars>>
notFolder == <<schedVars, respVars, reconVars, mainVars, cliVars, initVars>>
notRecon == <<schedVars, respVars, folderVars, mainVars, cliVars, initVars>>
notMain == <<schedVars, respVars, folderVars, reconVars, cliVars, initVars>>
notCli == <<schedVars, respVars, folderVars, reconVars, mainVars, initVars>>
notInit == <<schedVars, respVars, folderVars, reconVars, mainVars, cliVars>>

-----------------------------------------------------------------------------
\* Bounds of the model.
NumTasks == 3
MaxConnections == 2
MaxRetries == 2
MaxResolutions == 2
MaxRuns == 2
MaxPaths == 2

Tasks == 1..NumTasks
Servers == {"store1", "store2"}

-----------------------------------------------------------------------------
\* Strings whose content the code inspects are sequences of characters.
S_ok == <<"o", "k">>
S_error == <<"e", "r", "r", "o", "r">>
S_error_rateLimit == S_error \o <<"-", "r", "a", "t", "e", "L", "i", "m", "i", "t">>
S_error_notFound == S_error \o <<"-", "n", "o", "t", "F", "o", "u", "n", "d">>
S_noServer == <<"n", "o", "S", "e", "r", "v", "e", "r">>
S_empty == <<>>

\* Python's `needle in haystack` on strings.
Contains(needle, haystack) ==
    \E i \in 1..(Len(haystack) - Len(needle) + 1) :
        SubSeq(haystack, i, i + Len(needle) - 1) = needle

\* A decoded JSON response: null, or an object with some of the fields
\* "status" and "data".  A network failure is no response at all.
Response(json, fields, status, data) ==
    [json |-> json, fields |-> fields, status |-> status, data |-> data]
NetworkError == Response("neterr", {}, S_empty, <<>>)
JsonNull == Response("null", {}, S_empty, <<>>)
EmptyObject == Response("object", {}, S_empty, <<>>)

\* bool(response)
Truthy(response) == response.json = "object" /\ response.fields # {}
\* response.get("status", "")
GetStatus(response) == IF "status" \in response.fields THEN response.status ELSE S_empty
\* "data" in response
HasData(response) == response.json = "object" /\ "data" \in response.fields

\* GofileIOAPI.raise_error_if_error_in_remote_response: "exit" is exit(1),
\* "raise" the Exception, "pass" a normal return.
raise_error_if_error_in_remote_response(response, exit_if_rate_limited) ==
    IF Truthy(response)
    THEN IF exit_if_rate_limited /\ Contains(S_error_rateLimit, GetStatus(response))
         THEN "exit"
         ELSE IF Contains(S_error, GetStatus(response)) \/ GetStatus(response) # S_ok
              THEN "raise"
              ELSE "pass"
    ELSE "pass"

-----------------------------------------------------------------------------
\* The upload scheduler: GofileIOAPI.upload_file and upload_files of api.py.

PyNone == <<"None">>
RemoteFields == <<"id", "name", "downloadPage">>

OkServers(list) == Response("object", {"status", "data"}, S_ok, list)
\* What the service may answer to GET /servers.
ServersReplies ==
    { NetworkError, JsonNull, EmptyObject,
      Response("object", {"status"}, S_error_rateLimit, <<>>),
      Response("object", {"status"}, S_error_notFound, <<>>),
      Response("object", {"data"}, S_empty, <<"store1">>),
      Response("object", {"status"}, S_ok, <<>>),
      OkServers(<<>>), OkServers(<<"store1">>), OkServers(<<"store2", "store1">>) }
\* What an upload host may answer to POST /contents/uploadfile.
UploadReplies ==
    { NetworkError, JsonNull, EmptyObject,
      Response("object", {"status"}, S_error_rateLimit, <<>>),
      Response("object", {"status"}, S_error_notFound, <<>>),
      Response("object", {"data"}, S_empty, RemoteFields),
      Response("object", {"status"}, S_ok, <<>>),
      Response("object", {"status", "data"}, S_ok, <<>>),
      Response("object", {"status", "data"}, S_ok, RemoteFields) }

\* A lookup that finds no connection whatever the map holds.
NeverInSessions(server) == TRUE
\* An except branch that goes back to routing whatever the counter says.
RetryForever(t) ==
    /\ retries' = retries
    /\ pc' = [pc EXCEPT ![t] = "routing"]
    /\ returned' = returned
    /\ sem' = sem
\* A semaphore that admits every caller.
CanAcquireAlways(s) == TRUE
\* asyncio.Semaphore.acquire returns only while a slot is free.
CanAcquire(s) == s > 0

\* GofileIOAPI.get_servers: "raise", "exit", or "pass" (the response is returned).
get_servers(reply) ==
    IF reply = NetworkError THEN "raise"
    ELSE raise_error_if_error_in_remote_response(reply, TRUE)

\* next(iter(servers["data"]["servers"]))["name"] succeeds.
HasFirstServer(reply) == HasData(reply) /\ Len(reply.data) > 0

\* The check of the upload response, then response["data"].
UploadOutcome(reply) ==
    IF reply = NetworkError THEN "raise"
    ELSE IF raise_error_if_error_in_remote_response(reply, FALSE) # "pass" THEN "raise"
    ELSE IF ~HasData(reply) THEN "raise"
    ELSE "pass"

NewMetadata == [uploadSuccess |-> PyNone, remote |-> <<>>]

InitSched ==
    /\ connections \in 1..MaxConnections
    /\ retriesLimit \in 0..MaxRetries
    /\ exists \in [Tasks -> BOOLEAN]
    /\ pc = [t \in Tasks |-> "created"]
    /\ retries = [t \in Tasks |-> 0]
    /\ attempts = [t \in Tasks |-> 0]
    /\ posts = [t \in Tasks |-> 0]
    /\ sem = connections
    /\ server_sessions = [s \in Servers |-> 0]
    /\ sessionsMade = 0
    /\ taskSession = [t \in Tasks |-> 0]
    /\ servers = [t \in Tasks |-> PyNone]
    /\ file_metadata = [t \in Tasks |-> NewMetadata]
    /\ returned = [t \in Tasks |-> "running"]
    /\ history = <<>>
    /\ gather = "running"
    /\ responses = <<>>

\* The scheduler at rest, for the specifications that do not run it.
IdleSched ==
    /\ connections = 0
    /\ retriesLimit = 0
    /\ exists = <<>>
    /\ pc = <<>>
    /\ retries = <<>>
    /\ attempts = <<>>
    /\ posts = <<>>
    /\ sem = 0
    /\ server_sessions = <<>>
    /\ sessionsMade = 0
    /\ taskSession = <<>>
    /\ servers = <<>>
    /\ file_metadata = <<>>
    /\ returned = <<>>
    /\ history = <<>>
    /\ gather = "idle"
    /\ responses = <<>>

\* A loop that tests its condition after the first pass only.
do_while_test(r, limit) == r = 0 \/ r < limit
\* while retries < self.options["retries"]:
while_test(r, limit) == r < limit

\* `async with self.sem:` entered, `retries = 0`, the first test of
\* `while retries < self.options["retries"]` and, inside the loop, the request
\* of get_servers.  With a limit of 0 the block is left at once and the
\* coroutine returns None.
Enter(t) ==
    /\ retries' = [retries EXCEPT ![t] = 0]
    /\ IF while_test(0, retriesLimit)
       THEN /\ sem' = sem - 1
            /\ pc' = [pc EXCEPT ![t] = "routing"]
            /\ attempts' = [attempts EXCEPT ![t] = @ + 1]
            /\ returned' = returned
       ELSE /\ sem' = sem
            /\ pc' = [pc EXCEPT ![t] = "done"]
            /\ attempts' = attempts
            /\ returned' = [returned EXCEPT ![t] = "none"]

\* The first step of upload_file(t): the existence check, the metadata record,
\* and the semaphore.
Start(t) ==
    /\ gather # "aborted"
    /\ pc[t] = "created"
    /\ IF ~exists[t]
       THEN /\ pc' = [pc EXCEPT ![t] = "done"]
            /\ returned' = [returned EXCEPT ![t] = "raised"]
            /\ UNCHANGED <<retries, attempts, sem>>
       ELSE IF CanAcquire(sem)
            THEN Enter(t)
            ELSE /\ pc' = [pc EXCEPT ![t] = "waiting"]
                 /\ UNCHANGED <<retries, attempts, sem, returned>>
    /\ UNCHANGED <<connections, retriesLimit, exists, posts, server_sessions,
                   sessionsMade, taskSession, servers, file_metadata, history, gather,
                   responses, notSched>>

\* A task queued on the semaphore is woken when a slot is free.
Admit(t) ==
    /\ gather # "aborted"
    /\ pc[t] = "waiting"
    /\ CanAcquire(sem)
    /\ Enter(t)
    /\ UNCHANGED <<connections, retriesLimit, exists, posts, server_sessions,
                   sessionsMade, taskSession, servers, file_metadata, history, gather,
                   responses, notSched>>

\* `except Exception`: retries += 1, the log line, and then the
\* `return file_metadata` that follows the try statement inside the loop body.
Fail(t) ==
    /\ retries' = [retries EXCEPT ![t] = @ + 1]
    /\ pc' = [pc EXCEPT ![t] = "done"]
    /\ returned' = [returned EXCEPT ![t] = "record"]
    /\ sem' = sem + 1

\* `server not in self.server_sessions`
NotInSessions(server) == server_sessions[server] = 0

\* The answer to get_servers arrives; on success the host connection is looked
\* up or created, the file is opened and the POST is sent.
ServersReply(t, reply, readable) ==
    /\ gather # "aborted"
    /\ pc[t] = "routing"
    /\ servers' = [servers EXCEPT ![t] = IF get_servers(reply) = "pass" /\ HasData(reply)
                                           THEN reply.data ELSE @]
    /\ CASE get_servers(reply) = "exit" ->
              /\ pc' = [pc EXCEPT ![t] = "done"]
              /\ returned' = [returned EXCEPT ![t] = "exit"]
              /\ sem' = sem + 1
              /\ gather' = "aborted"
              /\ UNCHANGED <<retries, posts, server_sessions, sessionsMade, taskSession>>
         [] get_servers(reply) = "raise" \/ ~HasFirstServer(reply) ->
              /\ Fail(t)
              /\ UNCHANGED <<posts, server_sessions, sessionsMade, taskSession, gather>>
         [] OTHER ->
              LET server == reply.data[1]
                  fresh == NotInSessions(server)
                  session == IF fresh THEN sessionsMade + 1 ELSE server_sessions[server]
              IN /\ server_sessions' = [server_sessions EXCEPT ![server] = session]
                 /\ sessionsMade' = IF fresh THEN sessionsMade + 1 ELSE sessionsMade
                 /\ taskSession' = [taskSession EXCEPT ![t] = session]
                 /\ gather' = gather
                 /\ IF readable
                    THEN /\ pc' = [pc EXCEPT ![t] = "transferring"]
                         /\ posts' = [posts EXCEPT ![t] = @ + 1]
                         /\ UNCHANGED <<retries, returned, sem>>
                    ELSE /\ Fail(t)
                         /\ posts' = posts
    /\ UNCHANGED <<connections, retriesLimit, exists, attempts, file_metadata,
                   history, responses, notSched>>

\* A history that holds the last upload only.
history_overwrite(uploads, t, reply) == <<t>>
\* if file_metadata["uploadSuccess"] == "ok":
\*     self.options["history"]["uploads"].append(file_metadata)
history_append(uploads, t, reply) ==
    IF GetStatus(reply) = S_ok THEN Append(uploads, t) ELSE uploads

\* The answer to the upload POST arrives.
PostReply(t, reply) ==
    /\ gather # "aborted"
    /\ pc[t] = "transferring"
    /\ IF UploadOutcome(reply) = "raise"
       THEN /\ Fail(t)
            /\ UNCHANGED <<file_metadata, history>>
       ELSE /\ file_metadata' = [file_metadata EXCEPT
                                   ![t] = [uploadSuccess |-> GetStatus(reply),
                                           remote |-> reply.data]]
            /\ history' = history_append(history, t, reply)
            /\ pc' = [pc EXCEPT ![t] = "done"]
            /\ returned' = [returned EXCEPT ![t] = "record"]
            /\ sem' = sem + 1
            /\ retries' = retries
    /\ UNCHANGED <<connections, retriesLimit, exists, attempts, posts, server_sessions,
                   sessionsMade, taskSession, servers, gather, responses, notSched>>

\* What gather collects for a finished coroutine.
Result(t) ==
    IF returned[t] = "record"
    THEN [none |-> FALSE, uploadSuccess |-> file_metadata[t].uploadSuccess,
          remote |-> file_metadata[t].remote]
    ELSE [none |-> TRUE, uploadSuccess |-> PyNone, remote |-> <<>>]

\* tqdm_asyncio.gather hands back every result once all coroutines returned.
GatherReturn ==
    /\ gather = "running"
    /\ \A t \in Tasks : returned[t] \in {"record", "none"}
    /\ gather' = "returned"
    /\ responses' = [t \in Tasks |-> Result(t)]
    /\ UNCHANGED <<connections, retriesLimit, exists, pc, retries, attempts, posts, sem,
                   server_sessions, sessionsMade, taskSession, servers, file_metadata,
                   returned, history, notSched>>

\* An exception of one coroutine leaves gather, and so upload_files, at once;
\* the other coroutines stay scheduled on the event loop.
GatherRaise ==
    /\ gather = "running"
    /\ \E t \in Tasks : returned[t] = "raised"
    /\ gather' = "raised"
    /\ UNCHANGED <<connections, retriesLimit, exists, pc, retries, attempts, posts, sem,
                   server_sessions, sessionsMade, taskSession, servers, file_metadata,
                   returned, history, responses, notSched>>

NextSched ==
    \/ \E t \in Tasks : Start(t)
    \/ \E t \in Tasks : Admit(t)
    \/ \E t \in Tasks, reply \in ServersReplies, readable \in BOOLEAN :
           ServersReply(t, reply, readable)
    \/ \E t \in Tasks, reply \in UploadReplies : PostReply(t, reply)
    \/ GatherReturn
    \/ GatherRaise

-----------------------------------------------------------------------------
\* One remote operation of GofileIOAPI (api.py) and the response it receives.

Operations ==
    { "get_new_account", "get_servers", "get_account_id", "get_account_details",
      "get_content", "create_folder", "update_content", "delete_contents",
      "upload_file" }

Statuses == { S_ok, S_error_rateLimit, S_error_notFound, S_noServer, S_empty }

\* Every shape of answer: no answer, null, or an object with or without each field.
AllResponses ==
    { NetworkError, JsonNull } \cup
    { Response("object", f,
               IF "status" \in f THEN s ELSE S_empty,
               IF "data" \in f THEN d ELSE <<>>) :
        f \in SUBSET {"status", "data"}, s \in Statuses, d \in {<<>>, RemoteFields} }

\* A check that exits on a rate limit whatever the operation.
ExitAlways(o) == TRUE
\* The exit_if_rate_limited argument each operation passes to the check.
ExitIfRateLimited(o) ==
    o \in { "get_new_account", "get_servers", "get_account_id", "get_account_details",
            "get_content", "create_folder" }

\* The operations that read response["data"] after the check, before returning.
ReadsData(o) == o \in { "get_account_id", "get_account_details", "create_folder", "upload_file" }

\* How operation o ends on answer r: "exit" (exit(1)), "raise", or "return"
\* (the response is handed to the caller as a success).
ApiOutcome(o, r) ==
    IF r = NetworkError THEN "raise"
    ELSE LET check == raise_error_if_error_in_remote_response(r, ExitIfRateLimited(o))
         IN IF check # "pass" THEN check
            ELSE IF ReadsData(o) /\ ~HasData(r) THEN "raise"
            ELSE "return"

IdleResp ==
    /\ op = "none"
    /\ answer = NetworkError
    /\ outcome = "idle"

InitResp ==
    /\ op \in Operations
    /\ answer \in AllResponses
    /\ outcome = "pending"

\* The operation receives its answer and checks it.
Handle ==
    /\ outcome = "pending"
    /\ outcome' = ApiOutcome(op, answer)
    /\ UNCHANGED <<op, answer, notResp>>

\* The next remote call, unless the process has exited.
Call(o, r) ==
    /\ outcome \in {"return", "raise"}
    /\ op' = o
    /\ answer' = r
    /\ outcome' = "pending"
    /\ UNCHANGED notResp

NextResp ==
    \/ Handle
    \/ \E o \in Operations, r \in AllResponses : Call(o, r)

-----------------------------------------------------------------------------
\* Folder resolution: GofileIOUploader.get_folder_id of gofile_uploader.py, with
\* get_content and create_folder of the GofileIOAPI of the same file.

N_docs == <<"d", "o", "c", "s">>
N_pics == <<"p", "i", "c", "s">>
N_root == <<"r", "o", "o", "t">>
N_assigned == <<"x", "K", "3", "f", "Q", "z">>
N_uuid == <<"0", "a", "1", "b", "2", "c", "3", "d", "-", "4", "e", "5", "f", "-",
            "4", "a", "6", "b", "-", "8", "c", "7", "d", "-",
            "9", "e", "8", "f", "0", "a", "1", "b", "2", "c", "3", "d">>

HexDigits == { "0", "1", "2", "3", "4", "5", "6", "7", "8", "9",
               "a", "b", "c", "d", "e", "f" }
\* A test that no string passes.
MatchesNothing(s) == FALSE
\* A test of the whole string, as re.fullmatch would make it.
FullMatchesUuid4(s) ==
    /\ Len(s) = 36
    /\ \A i \in 1..36 :
          IF i \in {9, 14, 19, 24} THEN s[i] = "-"
          ELSE IF i = 15 THEN s[i] = "4"
          ELSE IF i = 20 THEN s[i] \in {"8", "9", "a", "b"}
          ELSE s[i] \in HexDigits
\* re.match(r"[0-9a-f]{8}-[0-9a-f]{4}-4[0-9a-f]{3}-[89ab][0-9a-f]{3}-[0-9a-f]{12}", s):
\* the pattern is anchored at the start of s only.
MatchesUuid4(s) ==
    /\ Len(s) >= 36
    /\ \A i \in 1..36 :
          IF i \in {9, 14, 19, 24} THEN s[i] = "-"
          ELSE IF i = 15 THEN s[i] = "4"
          ELSE IF i = 20 THEN s[i] \in {"8", "9", "a", "b"}
          ELSE s[i] \in HexDigits

\* The `folder` arguments tried: None, names, the empty string, a UUID, and a
\* UUID followed by more characters.
FolderArgs == { PyNone, N_docs, N_pics, N_root, S_empty, N_uuid, N_uuid \o N_docs }

RootId == 1
Child(id, type, name) == [id |-> id, type |-> type, name |-> name]
\* The root folders the account may start with.
InitialChildren ==
    { <<>>,
      <<Child(2, "folder", N_docs)>>,
      <<Child(2, "file", N_docs), Child(3, "folder", N_pics)>>,
      <<Child(2, "folder", N_pics), Child(3, "folder", N_docs)>>,
      <<Child(2, "folder", N_root), Child(3, "folder", N_docs)>> }

\* What the account may hold below a child folder of the root: nothing, or
\* one folder inside one of the root's child folders.
NestedFolders(children) ==
    {{}} \cup
    { {[id |-> 9, name |-> n, parent |-> children[i].id]} :
        i \in { j \in 1..Len(children) : children[j].type = "folder" },
        n \in {N_docs, N_pics} }

\* A search that also looks below the root's children.
folder_anywhere(children, folder) ==
    LET hits == { i \in 1..Len(children) :
                    children[i].type = "folder" /\ children[i].name = folder }
        deep == { f \in nested : f.name = folder }
    IN IF hits # {} THEN { children[CHOOSE i \in hits : \A j \in hits : i <= j] }
       ELSE { Child(f.id, "folder", f.name) : f \in deep }

\* The first child with the name, whatever its type.
child_with_same_name(children, folder) ==
    LET hits == { i \in 1..Len(children) : children[i].name = folder }
    IN IF hits = {} THEN {}
       ELSE { children[CHOOSE i \in hits : \A j \in hits : i <= j] }
\* The first child x with x.get("type") == "folder" and x.get("name") == folder,
\* as a set: empty when there is none.
folder_with_same_name(children, folder) ==
    LET hits == { i \in 1..Len(children) :
                    children[i].type = "folder" /\ children[i].name = folder }
    IN IF hits = {} THEN {}
       ELSE { children[CHOOSE i \in hits : \A j \in hits : i <= j] }

\* A search that prefers a child folder to the root.
child_before_root(root_name, found, folder) ==
    IF found # {} THEN "child"
    ELSE IF root_name = folder THEN "root"
    ELSE "create"
\* The chain of get_folder_id after the listing: the root's own name is
\* compared first, then the child folders, and failing both a folder is created.
name_search(root_name, found, folder) ==
    IF root_name = folder THEN "root"
    ELSE IF found # {} THEN "child"
    ELSE "create"

\* What get_folder_id returns.
Returned(kind, id, name) == [kind |-> kind, id |-> id, name |-> name]

\* GofileIOAPI.get_content raises before any request: no wt, and no token or
\* no premium tier.
ContentRefused == ~wt /\ (~token \/ ~is_premium)

\* The name the service gives a created folder.
CreatedName(folder_name) == IF folder_name # S_empty THEN folder_name ELSE N_assigned

IdleFolder ==
    /\ token = FALSE
    /\ wt = FALSE
    /\ is_premium = FALSE
    /\ root_folder_id = 0
    /\ rootChildren = <<>>
    /\ cachedListing = <<>>
    /\ nextId = 0
    /\ created_folders = {}
    /\ resolutions = <<>>
    /\ createCalls = 0
    /\ nested = {}

InitFolder ==
    /\ token \in BOOLEAN
    /\ wt \in BOOLEAN
    /\ is_premium \in BOOLEAN
    /\ root_folder_id \in (IF token THEN {RootId, 0} ELSE {0})
    /\ rootChildren \in InitialChildren
    /\ cachedListing = rootChildren
    /\ nextId = 4
    /\ created_folders = {}
    /\ resolutions = <<>>
    /\ createCalls = 0
    /\ nested \in NestedFolders(rootChildren)

\* The ids of the root's child folders that bear a name, and every id in use.
FoldersNamed(name) ==
    { rootChildren[i].id : i \in { j \in 1..Len(rootChildren) :
                                     /\ rootChildren[j].type = "folder"
                                     /\ rootChildren[j].name = name } }
IdsInUse ==
    {RootId} \cup { rootChildren[i].id : i \in 1..Len(rootChildren) }
             \cup { f.id : f \in nested }

\* The call is logged: its argument, its result, whether it created a folder
\* and with how many create requests, whether its listing came from the
\* service's cache, and what the root held when the call was made.
Resolved(folder, result, created, served) ==
    resolutions' = Append(resolutions,
                          [folder |-> folder, result |-> result, created |-> created,
                           served |-> served, calls |-> createCalls' - createCalls,
                           existing |-> FoldersNamed(folder), ids |-> IdsInUse])

\* An answer of None whatever the account.
ReturnsNone == Returned("none", 0, S_empty)
\* `return self.api.root_folder_id` with a token, `return None` without.
NoFolderGiven ==
    IF token THEN Returned(IF root_folder_id = 0 THEN "none" ELSE "id", root_folder_id, S_empty)
    ELSE Returned("none", 0, S_empty)

\* get_folder_id(folder) without a remote call: no folder, a UUID, or no token.
ResolveLocally(folder) ==
    /\ Len(resolutions) < MaxResolutions
    /\ \/ folder = PyNone
       \/ MatchesUuid4(folder)
       \/ ~token
    /\ UNCHANGED <<token, wt, is_premium, root_folder_id, rootChildren, cachedListing,
                   nextId, created_folders, createCalls, nested, notFolder>>
    /\ IF folder = PyNone
       THEN Resolved(folder, NoFolderGiven, FALSE, "nothing")
       ELSE IF MatchesUuid4(folder)
            THEN Resolved(folder, Returned("given", 0, folder), FALSE, "nothing")
            ELSE Resolved(folder, Returned("none", 0, S_empty), FALSE, "nothing")

\* get_folder_id(folder) for a name, with a token: the root is listed with
\* cache=True, so the service answers from its cached copy (fromCache) or lists
\* the folder anew; the name is compared with the root's own name and with its
\* child folders; failing both, a folder is created.  listed: the listing
\* request succeeds; createReply: the answer to the create request.
ResolveByName(folder, fromCache, listed, createReply) ==
    /\ Len(resolutions) < MaxResolutions
    /\ folder # PyNone /\ ~MatchesUuid4(folder) /\ token
    /\ LET listing == IF fromCache THEN cachedListing ELSE rootChildren
           found == folder_with_same_name(listing, folder)
           match == CHOOSE x \in found : TRUE
           served == IF fromCache THEN "cache" ELSE "fresh"
       IN IF ContentRefused \/ ~listed \/ root_folder_id = 0
          THEN /\ UNCHANGED <<rootChildren, cachedListing, nextId, created_folders,
                              createCalls>>
               /\ Resolved(folder, Returned("raised", 0, S_empty), FALSE, "nothing")
          ELSE IF name_search(N_root, found, folder) = "root"
          THEN /\ cachedListing' = listing
               /\ UNCHANGED <<rootChildren, nextId, created_folders, createCalls>>
               /\ Resolved(folder, Returned("id", RootId, S_empty), FALSE, served)
          ELSE IF name_search(N_root, found, folder) = "child"
          THEN /\ cachedListing' = listing
               /\ UNCHANGED <<rootChildren, nextId, created_folders, createCalls>>
               /\ Resolved(folder, Returned("id", match.id, S_empty), FALSE, served)
          ELSE /\ createCalls' = createCalls + 1
               /\ cachedListing' = listing
               /\ IF createReply = NetworkError
                     \/ "status" \notin createReply.fields
                     \/ createReply.status # S_ok
                  THEN /\ Resolved(folder, Returned("raised", 0, S_empty), FALSE, served)
                       /\ UNCHANGED <<rootChildren, nextId, created_folders>>
                  ELSE /\ rootChildren' =
                            Append(rootChildren,
                                   Child(nextId, "folder", CreatedName(folder)))
                       /\ nextId' = nextId + 1
                       /\ created_folders' = created_folders \cup {folder}
                       /\ Resolved(folder, Returned("id", nextId, S_empty), TRUE, served)
    /\ UNCHANGED <<token, wt, is_premium, root_folder_id, nested, notFolder>>

CreateReplies ==
    { NetworkError,
      Response("object", {"status"}, S_error_notFound, <<>>),
      Response("object", {"data"}, S_empty, RemoteFields),
      Response("object", {"status", "data"}, S_ok, RemoteFields) }

NextFolder ==
    \/ \E folder \in FolderArgs : ResolveLocally(folder)
    \/ \E folder \in FolderArgs, fromCache \in BOOLEAN, listed \in BOOLEAN,
          createReply \in CreateReplies :
           ResolveByName(folder, fromCache, listed, createReply)

-----------------------------------------------------------------------------
\* Reconciliation and upload: GofileIOUploader.upload_files and
\* get_md5_sums_for_files of gofile_uploader.py, from the listing of the target
\* folder on, for a folder id that was resolved.  The rename of remote
\* duplicates is in no source file; it is modelled from the specification's
\* section 4.3 (PlanRenames, RenameOne).

LocalPaths == {"a.txt", "b"}
PathOrder == <<"a.txt", "b">>
Hashes == {"H1", "H2"}
Runs == 1..MaxRuns

Entry(id, type, name, md5) == [id |-> id, type |-> type, name |-> name, md5 |-> md5]
Listing(children, public) == [children |-> children, public |-> public]
\* The target folders a run may start from.
RemoteChildren ==
    { <<>>,
      <<Entry(10, "file", "old.txt", "H1")>>,
      <<Entry(10, "file", "old.txt", "H1"), Entry(11, "file", "dup.txt", "H1")>>,
      <<Entry(10, "file", "a.txt", "H1"), Entry(11, "folder", "b", "none")>>,
      <<Entry(10, "file", "old.txt", "H1"), Entry(11, "folder", "b", "none")>> }

Range(seq) == { seq[i] : i \in 1..Len(seq) }

\* md5_sums_of_items_in_folder
md5_sums_of_items_in_folder(listing) ==
    { x.md5 : x \in { e \in Range(listing.children) : e.type = "file" } }

\* A skip test that skips every path with a known hash.
SkipHashed(pathSums, listing) == { k \in LocalPaths : pathSums[k] # "absent" }
\* A skip test that compares names instead of hashes.
SkipByName(pathSums, listing) ==
    { k \in LocalPaths : k \in { e.name : e \in Range(listing.children) } }
\* paths_to_skip
paths_to_skip(pathSums, listing) ==
    { k \in LocalPaths : /\ pathSums[k] # "absent"
                         /\ pathSums[k] \in md5_sums_of_items_in_folder(listing) }

\* GofileIOUploader.checksum(path): the MD5 of the file's content, which it reads.
checksum(q) == content[q]

\* A dictionary that has the checksum of every file, the cache unused.
checksum_of_every_file(cache) ==
    [ q \in LocalPaths |-> IF ~is_file[q] THEN "absent" ELSE checksum(q) ]

\* A dictionary with a sum for every path, regular file or not.
sums_of_every_path(cache) ==
    [ q \in LocalPaths |-> IF cache[q] # "absent" THEN cache[q] ELSE checksum(q) ]

\* GofileIOUploader.get_md5_sums_for_files: the returned dictionary.
get_md5_sums_for_files(cache) ==
    [ q \in LocalPaths |->
        IF ~is_file[q] THEN "absent"
        ELSE IF cache[q] # "absent" THEN cache[q]
        ELSE checksum(q) ]

\* A cache replaced by the sums of the call.
dict_replace(cache, new) == new
\* self.options["config"]["history"]["md5_sums"].update(sums)
dict_update(cache, new) ==
    [ q \in LocalPaths |-> IF new[q] # "absent" THEN new[q] ELSE cache[q] ]

\* The files get_md5_sums_for_files reads: its `else` branch calls checksum.
paths_to_checksum(cache) ==
    { q \in LocalPaths : is_file[q] /\ cache[q] = "absent" }

NoListing == Listing(<<>>, FALSE)
NoSums == [q \in LocalPaths |-> "absent"]
\* No call of get_md5_sums_for_files yet.
NoChecksums == [cache |-> NoSums, read |-> {}, failed |-> {}]

IdleRecon ==
    /\ content = <<>>
    /\ is_file = <<>>
    /\ md5_sums = <<>>
    /\ make_public = FALSE
    /\ rename_existing = FALSE
    /\ targetIsRoot = FALSE
    /\ remote = NoListing
    /\ cachedFolder = NoListing
    /\ remoteNextId = 0
    /\ run = 0
    /\ phase = "idle"
    /\ folder_id_contents = NoListing
    /\ sums = <<>>
    /\ paths = {}
    /\ pending = {}
    /\ renameQueue = <<>>
    /\ renameFailed = {}
    /\ uploaded = {}
    /\ transfers = <<>>
    /\ publicCalls = <<>>
    /\ cleanRuns = {}
    /\ staleRuns = {}
    /\ results = <<>>
    /\ checksums = <<>>
    /\ use_config = FALSE
    /\ persisted = <<>>
    /\ renameResults = <<>>

InitRecon ==
    /\ content \in [LocalPaths -> Hashes]
    /\ is_file \in { f \in [LocalPaths -> BOOLEAN] : f["a.txt"] }
    /\ use_config \in BOOLEAN
    /\ md5_sums \in (IF use_config THEN [LocalPaths -> Hashes \cup {"absent"}] ELSE {NoSums})
    /\ persisted = md5_sums
    /\ renameResults = <<>>
    /\ make_public \in BOOLEAN
    /\ rename_existing \in BOOLEAN
    /\ targetIsRoot \in BOOLEAN
    /\ remote \in { Listing(c, pub) : c \in RemoteChildren, pub \in BOOLEAN }
    /\ cachedFolder = remote
    /\ remoteNextId = 20
    /\ run = 1
    /\ phase = "start"
    /\ folder_id_contents = NoListing
    /\ sums = NoSums
    /\ paths = {}
    /\ pending = {}
    /\ renameQueue = <<>>
    /\ renameFailed = {}
    /\ uploaded = {}
    /\ transfers = [r \in Runs |-> 0]
    /\ publicCalls = [r \in Runs |-> 0]
    /\ cleanRuns = {}
    /\ staleRuns = {}
    /\ results = <<>>
    /\ checksums = NoChecksums

\* folder_id_contents = await self.api.get_content(folder_id, cache=True, ...):
\* the service answers from its cached copy or lists the folder anew.
List(fromCache, listed) ==
    /\ phase = "start"
    /\ IF listed
       THEN /\ folder_id_contents' = IF fromCache THEN cachedFolder ELSE remote
            /\ cachedFolder' = folder_id_contents'
            /\ staleRuns' = IF folder_id_contents' # remote
                            THEN staleRuns \cup {run} ELSE staleRuns
            /\ phase' = "listed"
       ELSE /\ phase' = "raised"
            /\ UNCHANGED <<folder_id_contents, cachedFolder, staleRuns>>
    /\ UNCHANGED <<content, is_file, md5_sums, make_public, rename_existing, targetIsRoot,
                   remote, remoteNextId, run, sums, paths, pending, renameQueue,
                   renameFailed, uploaded, transfers, publicCalls, cleanRuns, results,
                   checksums, use_config, persisted, renameResults, notRecon>>

\* The file at which the loop of get_md5_sums_for_files stops: the first, in
\* the order of paths, that checksum has to open and cannot.
first_unreadable(cache, unreadable) ==
    LET stuck == SelectSeq(PathOrder, LAMBDA q : q \in paths_to_checksum(cache) \cap unreadable)
    IN stuck[1]

\* A save that writes nothing.
not_saved(file, cache) == file
\* save_config_file: with use_config the configuration, the checksum cache
\* in it, is written to the config file.
save_config_file(file, cache) == IF use_config THEN cache ELSE file

\* GofileIOUploader.__init__ of the next run: load_config_file reads the
\* configuration back.
load_config_file_md5_sums(file) == IF use_config THEN file ELSE NoSums

\* self.options["config"] exists: create_config_defaults makes it only with
\* use_config; without it the first look-up of a file's path raises KeyError.
HasCache == use_config

\* paths_and_md5_sums = self.get_md5_sums_for_files(paths): cached sums are
\* reused, missing ones computed (which reads the file), and the result is
\* merged into the history and saved.  checksum opens the file: when it cannot,
\* the exception leaves get_md5_sums_for_files and upload_files, the cache as
\* it was.  saved: the config file can be written; when it cannot, the
\* exception leaves with the cache updated in memory only.
Hash(unreadable, saved) ==
    /\ phase = "listed"
    /\ IF ~HasCache
       THEN /\ phase' = "raised"
            /\ UNCHANGED <<sums, md5_sums, checksums, persisted>>
       ELSE IF paths_to_checksum(md5_sums) \cap unreadable # {}
       THEN /\ phase' = "raised"
            /\ checksums' = [cache |-> md5_sums, read |-> {},
                             failed |-> {first_unreadable(md5_sums, unreadable)}]
            /\ UNCHANGED <<sums, md5_sums, persisted>>
       ELSE /\ md5_sums' = dict_update(md5_sums, get_md5_sums_for_files(md5_sums))
            /\ checksums' = [cache |-> md5_sums, read |-> paths_to_checksum(md5_sums),
                             failed |-> {}]
            /\ IF saved
               THEN /\ persisted' = save_config_file(persisted, md5_sums')
                    /\ sums' = get_md5_sums_for_files(md5_sums)
                    /\ phase' = "hashed"
               ELSE /\ phase' = "raised"
                    /\ UNCHANGED <<sums, persisted>>
    /\ UNCHANGED <<content, is_file, make_public, rename_existing, targetIsRoot, remote,
                   cachedFolder, remoteNextId, run, folder_id_contents, paths, pending,
                   renameQueue, renameFailed, uploaded, transfers, publicCalls,
                   cleanRuns, staleRuns, results, use_config, renameResults, notRecon>>

\* The skip list, the make-public update, and the filter of paths.
Reconcile(updated) ==
    /\ phase = "hashed"
    /\ IF make_public /\ ~targetIsRoot /\ ~folder_id_contents.public
       THEN /\ publicCalls' = [publicCalls EXCEPT ![run] = @ + 1]
            /\ IF updated
               THEN /\ remote' = [remote EXCEPT !.public = TRUE]
                    /\ phase' = "reconciled"
                    /\ paths' = LocalPaths \ paths_to_skip(sums, folder_id_contents)
               ELSE /\ phase' = "raised"
                    /\ UNCHANGED <<remote, paths>>
       ELSE /\ phase' = "reconciled"
            /\ paths' = LocalPaths \ paths_to_skip(sums, folder_id_contents)
            /\ UNCHANGED <<remote, publicCalls>>
    /\ UNCHANGED <<content, is_file, md5_sums, make_public, rename_existing, targetIsRoot,
                   cachedFolder, remoteNextId, run, folder_id_contents, sums, pending,
                   renameQueue, renameFailed, uploaded, transfers, cleanRuns, staleRuns,
                   results, checksums, use_config, persisted, renameResults, notRecon>>

\* Section 4.3: for every skipped local file, every listed remote file entry
\* with the file's hash and another name is queued for a rename to the local
\* file's name (the local name of a path is the path's last component).
RenamesFor(q, listing, pathSums) ==
    LET Differs(e) == e.type = "file" /\ e.md5 = pathSums[q] /\ e.name # q
        hits == SelectSeq(listing.children, Differs)
    IN [i \in 1..Len(hits) |-> [id |-> hits[i].id, name |-> q]]

RECURSIVE RenamePlan(_, _, _, _)
RenamePlan(order, skipped, listing, pathSums) ==
    IF order = <<>> THEN <<>>
    ELSE (IF Head(order) \in skipped
          THEN RenamesFor(Head(order), listing, pathSums) ELSE <<>>)
         \o RenamePlan(Tail(order), skipped, listing, pathSums)

PlanRenames ==
    /\ phase = "reconciled"
    /\ renameQueue' = IF rename_existing
                      THEN RenamePlan(PathOrder, LocalPaths \ paths, folder_id_contents, sums)
                      ELSE <<>>
    /\ phase' = "renaming"
    /\ UNCHANGED <<content, is_file, md5_sums, make_public, rename_existing, targetIsRoot,
                   remote, cachedFolder, remoteNextId, run, folder_id_contents, sums,
                   paths, pending, renameFailed, uploaded, transfers, publicCalls,
                   cleanRuns, staleRuns, results, checksums, use_config, persisted, renameResults, notRecon>>

\* A failed rename that ends the run.
abort_on_failure(updated, queue) ==
    IF updated THEN [phase |-> "renaming", renameQueue |-> Tail(queue)]
    ELSE [phase |-> "raised", renameQueue |-> queue]
\* After a rename request, failed or not, the run goes on with the rest of
\* the queue.
after_rename(updated, queue) == [phase |-> "renaming", renameQueue |-> Tail(queue)]

\* One queued rename is requested (an update of the attribute "name"); a
\* failure is logged, the match is marked renamed = FALSE and the run goes on.
RenameOne(updated) ==
    /\ phase = "renaming"
    /\ renameQueue # <<>>
    /\ LET r == Head(renameQueue)
       IN /\ IF updated
             THEN /\ remote' = [remote EXCEPT !.children =
                                  [i \in 1..Len(@) |->
                                     IF @[i].id = r.id THEN [@[i] EXCEPT !.name = r.name]
                                     ELSE @[i]]]
                  /\ renameFailed' = renameFailed
             ELSE /\ renameFailed' = renameFailed \cup {r.id}
                  /\ remote' = remote
          /\ renameResults' = Append(renameResults,
                                     [id |-> r.id, name |-> r.name, renamed |-> updated])
    /\ renameQueue' = after_rename(updated, renameQueue).renameQueue
    /\ phase' = after_rename(updated, renameQueue).phase
    /\ UNCHANGED <<content, is_file, md5_sums, make_public, rename_existing, targetIsRoot,
                   cachedFolder, remoteNextId, run, folder_id_contents, sums,
                   paths, pending, uploaded, transfers, publicCalls, cleanRuns,
                   staleRuns, results, checksums, use_config, persisted, notRecon>>

\* `if paths:` the tasks are handed to self.api.upload_files; otherwise
\* "No file paths left to upload".
StartUploads ==
    /\ phase = "renaming"
    /\ renameQueue = <<>>
    /\ IF paths # {}
       THEN /\ pending' = paths
            /\ phase' = "uploading"
            /\ cleanRuns' = cleanRuns
       ELSE /\ pending' = {}
            /\ phase' = "done"
            /\ cleanRuns' = cleanRuns \cup {run}
    /\ UNCHANGED <<content, is_file, md5_sums, make_public, rename_existing, targetIsRoot,
                   remote, cachedFolder, remoteNextId, run, folder_id_contents, sums,
                   paths, renameQueue, renameFailed, uploaded, transfers, publicCalls,
                   staleRuns, results, checksums, use_config, persisted, renameResults, notRecon>>

\* One upload task runs to its end: "unrouted" (server discovery or the opening
\* of the file failed, nothing was posted), "rejected" (the POST failed) or
\* "stored" (the service stored the bytes under the file's name).
UploadOne(q, result) ==
    /\ phase = "uploading"
    /\ q \in pending
    /\ is_file[q] \/ result = "unrouted"
    /\ pending' = pending \ {q}
    /\ transfers' = IF result = "unrouted" THEN transfers
                    ELSE [transfers EXCEPT ![run] = @ + 1]
    /\ IF result = "stored"
       THEN /\ remote' = [remote EXCEPT !.children =
                            Append(@, Entry(remoteNextId, "file", q, content[q]))]
            /\ remoteNextId' = remoteNextId + 1
            /\ uploaded' = uploaded \cup {q}
       ELSE UNCHANGED <<remote, remoteNextId, uploaded>>
    /\ UNCHANGED <<content, is_file, md5_sums, make_public, rename_existing, targetIsRoot,
                   cachedFolder, run, phase, folder_id_contents, sums, paths, renameQueue,
                   renameFailed, publicCalls, cleanRuns, staleRuns, results, checksums, use_config, persisted, renameResults, notRecon>>

\* What gather returns: the record of each task, in the order of the paths;
\* uploadSuccess is the response's status after a stored upload, None otherwise.
uploadSuccess(q, stored) == IF q \in stored THEN S_ok ELSE PyNone
gathered(tasks, stored) ==
    LET order == SelectSeq(PathOrder, LAMBDA q : q \in tasks)
    IN [i \in 1..Len(order) |->
          [filePath |-> order[i], uploadSuccess |-> uploadSuccess(order[i], stored)]]

\* gather returns once every task has ended.
FinishRun ==
    /\ phase = "uploading"
    /\ pending = {}
    /\ phase' = "done"
    /\ cleanRuns' = IF uploaded = paths THEN cleanRuns \cup {run} ELSE cleanRuns
    /\ results' = gathered(paths, uploaded)
    /\ UNCHANGED <<content, is_file, md5_sums, make_public, rename_existing, targetIsRoot,
                   remote, cachedFolder, remoteNextId, run, folder_id_contents, sums,
                   paths, pending, renameQueue, renameFailed, uploaded, transfers,
                   publicCalls, staleRuns, checksums, use_config, persisted, renameResults, notRecon>>

\* The program is run again on the same local files and the same folder.
NextRun ==
    /\ phase \in {"done", "raised"}
    /\ run < MaxRuns
    /\ run' = run + 1
    /\ phase' = "start"
    /\ folder_id_contents' = NoListing
    /\ sums' = NoSums
    /\ paths' = {}
    /\ pending' = {}
    /\ renameQueue' = <<>>
    /\ renameFailed' = {}
    /\ uploaded' = {}
    /\ results' = <<>>
    /\ renameResults' = <<>>
    /\ checksums' = NoChecksums
    /\ md5_sums' = load_config_file_md5_sums(persisted)
    /\ UNCHANGED <<content, is_file, make_public, rename_existing, targetIsRoot,
                   remote, cachedFolder, remoteNextId, transfers, publicCalls, cleanRuns,
                   staleRuns, use_config, persisted, notRecon>>

NextRecon ==
    \/ \E fromCache \in BOOLEAN, listed \in BOOLEAN : List(fromCache, listed)
    \/ \E unreadable \in SUBSET LocalPaths, saved \in BOOLEAN : Hash(unreadable, saved)
    \/ \E updated \in BOOLEAN : Reconcile(updated)
    \/ PlanRenames
    \/ \E updated \in BOOLEAN : RenameOne(updated)
    \/ StartUploads
    \/ \E q \in LocalPaths, result \in {"unrouted", "rejected", "stored"} :
           UploadOne(q, result)
    \/ FinishRun
    \/ NextRun

-----------------------------------------------------------------------------
\* The run and its connections: async_main, GofileIOUploader.init,
\* GofileIOUploader.upload_files and GofileIOAPI.upload_files of
\* gofile_uploader.py.  A connection records whether it is closed and how many
\* times close() was called on it.

FolderKinds == {"none", "uuid", "name"}
Session(closed, closeCalls) == [closed |-> closed, closeCalls |-> closeCalls]
HostSession(opened, closed, closeCalls) ==
    [opened |-> opened, closed |-> closed, closeCalls |-> closeCalls]
\* await session.close()
Close(session) == [session EXCEPT !.closed = TRUE, !.closeCalls = @ + 1]

IdleMain ==
    /\ args = <<>>
    /\ step = "idle"
    /\ rootKnown = FALSE
    /\ apiSession = Session(TRUE, 0)
    /\ hostSessions = <<>>
    /\ tasksLeft = {}
    /\ sent = {}
    /\ failedAt = "none"
    /\ initResult = "none"

\* GofileIOAPI.__init__ opens the metadata session; no host session exists.
InitMain ==
    /\ args \in [token : BOOLEAN, dry_run : BOOLEAN, folder : FolderKinds]
    /\ step = "start"
    /\ rootKnown = FALSE
    /\ apiSession = Session(FALSE, 0)
    /\ hostSessions = [s \in Servers |-> HostSession(FALSE, FALSE, 0)]
    /\ tasksLeft = {}
    /\ sent = {}
    /\ failedAt = "none"
    /\ initResult = "none"

\* How GofileIOUploader.init may go: "ok"; "early", self.api.init() raised
\* before it assigned root_folder_id; "details", it raised after that, at the
\* read of the account's tier; "late", the get_wt call that follows api.init
\* raised.  api.init is only called with a token.
InitResults == {"ok", "early", "details", "late"}

\* A handler that logs and leaves the session as it is.
session_left(session) == session
\* except Exception as ex: logger.error(ex); await self.api.session.close()
except_Exception(session) == Close(session)

\* GofileIOUploader.init: every failure is caught, logged, and answered by
\* closing the metadata session; init returns.
ClientInit(result) ==
    /\ step = "start"
    /\ result \in {"early", "details"} => args.token
    /\ rootKnown' = (args.token /\ result # "early")
    /\ apiSession' = IF result = "ok" THEN apiSession ELSE except_Exception(apiSession)
    /\ initResult' = result
    /\ step' = "inited"
    /\ UNCHANGED <<args, hostSessions, tasksLeft, sent, failedAt, notMain>>

\* A run that uploads whatever the flag.
NeverSkips == FALSE
\* `if args.dry_run:`
SkipsUpload == args.dry_run

\* if args.dry_run: print("Dry run only, uploading skipped")
DryRun ==
    /\ step = "inited"
    /\ SkipsUpload
    /\ step' = "finally"
    /\ UNCHANGED <<args, rootKnown, apiSession, hostSessions, tasksLeft, sent, failedAt, initResult, notMain>>

\* get_folder_id returns a folder id without a request when ...
ResolvesLocally == args.folder = "uuid" \/ (args.folder = "none" /\ rootKnown)
\* ... and lists the root folder when the folder is a name and a token is set.
ResolvesRemotely == args.folder = "name" /\ args.token
\* `if folder_id:` the target folder is listed.
CallsMetadata == ResolvesLocally \/ ResolvesRemotely

\* The steps of upload_files before `if paths:`, in their order: the walk of
\* the path, get_folder_id, the listing of the target folder, and the
\* checksums and the make-public update that follow it.
Failures == {"none", "walk", "resolve", "list", "later"}

\* An upload_files that goes on to its tasks when the resolution or the
\* listing raised.
raises_after_listing(failure) == failure \in {"walk", "later"}
\* upload_files has no try: whatever a step raises leaves it there.
raises(failure) == failure # "none"

\* GofileIOUploader.upload_files up to `if paths:`.  A request on a closed
\* session raises; so may the walk of the path, the resolution (the listing of
\* the root or the create-folder request), the listing of the target, the
\* checksums or the make-public update.  Otherwise n paths are left.
\* creates: get_folder_id sent a create-folder request; updates: the
\* make-public update was sent.
Prepare(failure, n, creates, updates) ==
    /\ step = "inited"
    /\ ~SkipsUpload
    /\ failure = "resolve" => ResolvesRemotely
    /\ failure \in {"list", "later"} => CallsMetadata
    /\ (CallsMetadata /\ apiSession.closed) =>
           failure \in {"walk", IF ResolvesRemotely THEN "resolve" ELSE "list"}
    /\ creates => (ResolvesRemotely /\ ~apiSession.closed /\ failure # "walk")
    /\ updates => (CallsMetadata /\ ~apiSession.closed /\ failure \in {"none", "later"})
    /\ sent' = sent \cup (IF creates THEN {"createfolder"} ELSE {})
                    \cup (IF updates THEN {"update"} ELSE {})
    /\ failedAt' = failure
    /\ IF raises(failure) \/ n = 0
       THEN /\ step' = "finally"
            /\ tasksLeft' = {}
       ELSE /\ step' = "gathering"
            /\ tasksLeft' = 1..n
    /\ UNCHANGED <<args, rootKnown, apiSession, hostSessions, initResult, notMain>>

\* GofileIOAPI.upload_file, one task from its start to its return: server
\* discovery on the metadata session (not sent if that session is closed), then
\* the host session is created if the host has none, then the POST ("unsent"
\* when the file cannot be opened); a stored upload is appended to the upload
\* history.  Every Exception is caught in the task.
TaskEnds(t, routed, server, post) ==
    /\ step = "gathering"
    /\ t \in tasksLeft
    /\ apiSession.closed => ~routed
    /\ ~routed => post = "unsent"
    /\ hostSessions' = IF routed /\ ~hostSessions[server].opened
                       THEN [hostSessions EXCEPT ![server] = HostSession(TRUE, FALSE, 0)]
                       ELSE hostSessions
    /\ sent' = sent \cup (IF ~apiSession.closed THEN {"servers"} ELSE {})
                    \cup (IF post # "unsent" THEN {"uploadfile"} ELSE {})
                    \cup (IF post = "stored" THEN {"history"} ELSE {})
    /\ tasksLeft' = tasksLeft \ {t}
    /\ UNCHANGED <<args, step, rootKnown, apiSession, failedAt, initResult, notMain>>

\* The `finally` of GofileIOAPI.upload_files: the metadata session is closed,
\* then every host session.  It runs when gather returned (no task left) and
\* when the await was cancelled or interrupted (tasks left).
ApiFinally(interrupted) ==
    /\ step = "gathering"
    /\ interrupted \/ tasksLeft = {}
    /\ apiSession' = Close(apiSession)
    /\ hostSessions' = [s \in Servers |->
                          IF hostSessions[s].opened THEN Close(hostSessions[s])
                          ELSE hostSessions[s]]
    /\ tasksLeft' = {}
    /\ step' = "finally"
    /\ UNCHANGED <<args, rootKnown, sent, failedAt, initResult, notMain>>

\* The `finally` of async_main.
MainFinally ==
    /\ step = "finally"
    /\ apiSession' = IF ~apiSession.closed THEN Close(apiSession) ELSE apiSession
    /\ step' = "ended"
    /\ UNCHANGED <<args, rootKnown, hostSessions, tasksLeft, sent, failedAt, initResult, notMain>>

NextMain ==
    \/ \E result \in InitResults : ClientInit(result)
    \/ DryRun
    \/ \E failure \in Failures, n \in 0..MaxPaths, creates \in BOOLEAN, updates \in BOOLEAN :
           Prepare(failure, n, creates, updates)
    \/ \E t \in 1..MaxPaths, routed \in BOOLEAN, server \in Servers,
          post \in {"unsent", "rejected", "stored"} :
           TaskEnds(t, routed, server, post)
    \/ \E interrupted \in BOOLEAN : ApiFinally(interrupted)
    \/ MainFinally

-----------------------------------------------------------------------------
\* Account set-up: GofileIOAPI.__init__ and init of api.py.  Three sessions
\* exist: the one __init__ makes for https://api.gofile.io ("constructed"),
\* the one get_new_account makes for its single request ("temporary"), and
\* the one init makes with the new token ("replacement").

SessionNames == {"constructed", "temporary", "replacement"}
\* aiohttp.ClientSession(..., headers=auth)
NewSession(auth) == [state |-> "open", auth |-> auth, requests |-> 0]
NoSession == [state |-> "unmade", auth |-> "None", requests |-> 0]

\* A session left as it is.
left_open(ss, name) == ss
\* if not self.session.closed: await self.session.close()
close_if_open(ss, name) ==
    IF ss[name].state = "open" THEN [ss EXCEPT ![name].state = "closed"] ELSE ss

\* A request sent on a session.
Requested(ss, name) == [ss EXCEPT ![name].requests = @ + 1]

\* temporary_account["data"]["token"] and ["id"] can be read.
HasAccount(response) == HasData(response) /\ response.data # <<>>

IdleInit ==
    /\ initPc = "idle"
    /\ account = <<>>
    /\ sessions = <<>>
    /\ self_session = "none"
    /\ init_response = NetworkError

\* GofileIOAPI.__init__: the session carries the token if one was given.
InitApi ==
    /\ initPc = "start"
    /\ account \in [token : {"None", "given"}, account_id : {FALSE}, wt : {FALSE},
                     root_folder_id : {FALSE}, is_premium : {FALSE}]
    /\ sessions = [n \in SessionNames |->
                     IF n = "constructed" THEN NewSession(account.token) ELSE NoSession]
    /\ self_session = "constructed"
    /\ init_response = NetworkError

\* init, no token: get_new_account opens its own session and posts.
NewAccountRequest ==
    /\ initPc = "start"
    /\ account.token = "None"
    /\ sessions' = Requested([sessions EXCEPT !["temporary"] = NewSession("None")],
                             "temporary")
    /\ initPc' = "new_account"
    /\ UNCHANGED <<account, self_session, init_response, notInit>>

\* The answer to POST /accounts: the temporary session is closed on every way
\* out of get_new_account; init reads the token and the id of the new account.
NewAccountReply(response) ==
    /\ initPc = "new_account"
    /\ sessions' = close_if_open(sessions, "temporary")
    /\ LET end == ApiOutcome("get_new_account", response)
       IN IF end = "return" /\ HasAccount(response)
          THEN /\ account' = [account EXCEPT !.token = "new", !.account_id = TRUE]
               /\ initPc' = "recreate"
          ELSE /\ initPc' = IF end = "exit" THEN "exited" ELSE "raised"
               /\ UNCHANGED account
    /\ init_response' = response
    /\ UNCHANGED <<self_session, notInit>>

\* if not self.session.closed: await self.session.close()
CloseSession ==
    /\ initPc = "recreate"
    /\ sessions' = close_if_open(sessions, self_session)
    /\ initPc' = "closed"
    /\ UNCHANGED <<account, self_session, init_response, notInit>>

\* self.session_headers and self.session are made anew with the new token.
ReplaceSession ==
    /\ initPc = "closed"
    /\ sessions' = [sessions EXCEPT !["replacement"] = NewSession(account.token)]
    /\ self_session' = "replacement"
    /\ initPc' = "wt"
    /\ UNCHANGED <<account, init_response, notInit>>

\* init, token given: get_account_id on self.session.
AccountIdReply(response) ==
    /\ initPc = "start"
    /\ account.token # "None"
    /\ sessions' = Requested(sessions, self_session)
    /\ LET end == ApiOutcome("get_account_id", response)
       IN IF end = "return" /\ HasAccount(response)
          THEN /\ account' = [account EXCEPT !.account_id = TRUE]
               /\ initPc' = "wt"
          ELSE /\ initPc' = IF end = "exit" THEN "exited" ELSE "raised"
               /\ UNCHANGED account
    /\ init_response' = response
    /\ UNCHANGED <<self_session, notInit>>

\* if self.wt is None: self.wt = await self.get_wt(), on a session of its own;
\* the page may lack the token, the request may fail.
GetWt(fetched, found) ==
    /\ initPc = "wt"
    /\ IF fetched
       THEN /\ account' = [account EXCEPT !.wt = found]
            /\ initPc' = "details"
       ELSE /\ initPc' = "raised"
            /\ UNCHANGED account
    /\ UNCHANGED <<sessions, self_session, init_response, notInit>>

\* account = await self.get_account_details(self.account_id)
AccountDetailsReply(response, premium) ==
    /\ initPc = "details"
    /\ sessions' = Requested(sessions, self_session)
    /\ LET end == ApiOutcome("get_account_details", response)
       IN IF end = "return" /\ HasAccount(response)
          THEN /\ account' = [account EXCEPT !.root_folder_id = TRUE, !.is_premium = premium]
               /\ initPc' = "done"
          ELSE /\ initPc' = IF end = "exit" THEN "exited" ELSE "raised"
               /\ UNCHANGED account
    /\ init_response' = response
    /\ UNCHANGED <<self_session, notInit>>

NextInit ==
    \/ NewAccountRequest
    \/ \E response \in AllResponses : NewAccountReply(response)
    \/ CloseSession
    \/ ReplaceSession
    \/ \E response \in AllResponses : AccountIdReply(response)
    \/ \E fetched \in BOOLEAN, found \in BOOLEAN : GetWt(fetched, found)
    \/ \E response \in AllResponses, premium \in BOOLEAN :
           AccountDetailsReply(response, premium)

-----------------------------------------------------------------------------
\* Option resolution: cli() of cli.py.  A dictionary is a function on the
\* option names, "absent" where it has no such key; Python's None is "None",
\* and every value is written as the text of its Python literal.

\* The options the command line may give.
CliOptions == {"connections", "public", "recurse_max", "use_config"}
\* The options the local config file may hold.
ConfigOptions == {"connections", "public", "recurse_max"}
\* The keys of combined_options.
OptionKeys == CliOptions \cup {"config_file_path", "config_directory"}

EmptyDict == [k \in OptionKeys |-> "absent"]

\* dict.update
options_update(d, e) == [k \in OptionKeys |-> IF e[k] # "absent" THEN e[k] ELSE d[k]]

\* utils.return_dict_without_none_value_keys
return_dict_without_none_value_keys(d) ==
    [k \in OptionKeys |-> IF d[k] = "None" THEN "absent" ELSE d[k]]

\* default_cli_options of cli()
default_cli_options ==
    [k \in OptionKeys |->
        CASE k = "connections" -> "6"
          [] k = "public" -> "False"
          [] OTHER -> "absent"]

\* The `default=` of each add_argument; argparse's own default is None.
argparse_default ==
    [k \in CliOptions |->
        CASE k = "use_config" -> "True"
          [] k = "recurse_max" -> "1000"
          [] OTHER -> "None"]

\* vars(parser.parse_args(argparse_arguments))
parse_args(given) ==
    [k \in OptionKeys |->
        IF k \notin CliOptions THEN "absent"
        ELSE IF given[k] # "unset" THEN given[k]
        ELSE argparse_default[k]]

\* json.load of the config file as a dictionary; JSON null is None.
json_load(file) ==
    [k \in OptionKeys |-> IF k \in ConfigOptions THEN file[k] ELSE "absent"]

\* load_config_file(config_file_path)
load_config_file(file) ==
    IF file.state # "valid"
    THEN return_dict_without_none_value_keys(EmptyDict)
    ELSE return_dict_without_none_value_keys(
             [k \in OptionKeys |->
                 IF json_load(file)[k] # "None" THEN json_load(file)[k] ELSE "absent"])

ConfigFiles ==
    [state : {"missing", "invalid"},
     connections : {"absent"}, public : {"absent"}, recurse_max : {"absent"}] \cup
    [state : {"valid"},
     connections : {"absent", "None", "4"},
     public : {"absent", "None", "True"},
     recurse_max : {"absent", "None", "50"}]

CommandLines ==
    [connections : {"unset", "2"},
     public : {"unset", "True", "False"},
     recurse_max : {"unset", "10"},
     use_config : {"unset", "True", "False"}]

IdleCli ==
    /\ argv = <<>>
    /\ config_file = <<>>
    /\ cliStep = "idle"
    /\ parsed = <<>>
    /\ loaded_options = <<>>
    /\ combined_options = <<>>
    /\ configRead = FALSE

InitCli ==
    /\ argv \in CommandLines
    /\ config_file \in ConfigFiles
    /\ cliStep = "start"
    /\ parsed = EmptyDict
    /\ loaded_options = EmptyDict
    /\ combined_options = EmptyDict
    /\ configRead = FALSE

\* args = parser.parse_args(argparse_arguments); loaded_options = {};
\* combined_options with its None paths, updated with default_cli_options.
ParseArgs ==
    /\ cliStep = "start"
    /\ parsed' = parse_args(argv)
    /\ loaded_options' = EmptyDict
    /\ combined_options' =
          options_update([EmptyDict EXCEPT !["config_file_path"] = "None",
                                           !["config_directory"] = "None"],
                         default_cli_options)
    /\ cliStep' = "parsed"
    /\ UNCHANGED <<argv, config_file, configRead, notCli>>

\* if args.use_config: the config file is loaded and its paths are set.
LoadLocalConfig ==
    /\ cliStep = "parsed"
    /\ IF parsed["use_config"] = "True"
       THEN /\ loaded_options' = load_config_file(config_file)
            /\ configRead' = TRUE
            /\ combined_options' = [combined_options EXCEPT
                                       !["config_file_path"] = "config.json",
                                       !["config_directory"] = "gofile-upload"]
       ELSE UNCHANGED <<loaded_options, configRead, combined_options>>
    /\ cliStep' = "loaded"
    /\ UNCHANGED <<argv, config_file, parsed, notCli>>

\* cli_options without its None values; combined_options updated with
\* loaded_options, then with cli_options, and returned.
Combine ==
    /\ cliStep = "loaded"
    /\ combined_options' =
          options_update(options_update(combined_options, loaded_options),
                         return_dict_without_none_value_keys(parsed))
    /\ cliStep' = "returned"
    /\ UNCHANGED <<argv, config_file, parsed, loaded_options, configRead, notCli>>

NextCli ==
    \/ ParseArgs
    \/ LoadLocalConfig
    \/ Combine

-----------------------------------------------------------------------------
\* Claims about the scheduler (specification Spec).

\* The tasks inside the gated section: routing or transferring.
InGate == { t \in Tasks : pc[t] \in {"routing", "transferring"} }

\* C1: in every reachable state at most `connections` upload_file tasks are
\* inside the gated section.
C1_ConcurrencyBound == Cardinality(InGate) <= connections
\* The gate is full while another task is queued on it.
C1_Witness ==
    /\ Cardinality(InGate) = connections
    /\ \E t \in Tasks : pc[t] = "waiting"
    /\ \E t \in Tasks : pc[t] = "transferring"

\* A task that ended Failed: it returned its record with no success marker.
Failed(t) == returned[t] = "record" /\ file_metadata[t].uploadSuccess = PyNone
Succeeded(t) == returned[t] = "record" /\ file_metadata[t].uploadSuccess = S_ok

\* C2 (as claimed): a task whose attempts all fail has made exactly
\* `retries` attempts when it becomes Failed.
C2_ExactlyRetriesAttempts ==
    \A t \in Tasks : Failed(t) => attempts[t] = retriesLimit
\* What the code does: a Failed task has made one attempt, whatever the limit.
C2_OneAttemptOnly ==
    \A t \in Tasks : Failed(t) => attempts[t] = 1 /\ retries[t] = 1

\* C26 (as claimed): a task whose attempt failed with its retry counter still
\* below the limit goes back to routing for another attempt, beginning with a
\* new server-discovery query: it does not end Failed while its counter is
\* below the limit, and each failure it had was followed by a new query.
C26_RetryWhileBelowLimit ==
    \A t \in Tasks :
        /\ Failed(t) => retries[t] >= retriesLimit
        /\ (pc[t] = "routing" /\ retries[t] > 0) => attempts[t] = retries[t]

\* C36: with a retry limit of 0 the upload of an existing file sends no
\* server-discovery request and no POST, leaves the gate as free as it found it,
\* writes no record, and returns None, which is what gather hands back for it.
C36_LimitZeroReturnsNone ==
    retriesLimit = 0 =>
        /\ sem = connections
        /\ history = <<>>
        /\ \A t \in Tasks :
               /\ attempts[t] = 0 /\ posts[t] = 0 /\ retries[t] = 0
               /\ servers[t] = PyNone
               /\ pc[t] \in {"created", "done"}
               /\ (pc[t] = "done" /\ exists[t]) => returned[t] = "none"
               /\ (gather = "returned") => responses[t].none

\* Three existing files and one connection: every coroutine has returned None
\* and gather has returned.
C36_Witness ==
    /\ retriesLimit = 0
    /\ connections = 1
    /\ \A t \in Tasks : exists[t] /\ pc[t] = "done" /\ returned[t] = "none"
    /\ gather = "returned"
    /\ \A t \in Tasks : responses[t].none

\* The records of task t in the upload history.
Records(t, uploads) == { i \in 1..Len(uploads) : uploads[i] = t }

\* C27: in every step, whatever the interleaving of the tasks: afterwards the
\* upload history holds exactly one record of every task that has ended
\* Succeeded and none of any other task; the history before the step is a
\* prefix of the history after it; and a task that has ended Succeeded stays
\* so and sends no further request.
C27_HistoryOneRecordPerSuccess ==
    [][/\ \A t \in Tasks :
             Cardinality(Records(t, history')) = IF Succeeded(t)' THEN 1 ELSE 0
       /\ Len(history) <= Len(history')
       /\ SubSeq(history', 1, Len(history)) = history
       /\ \A t \in Tasks :
             Succeeded(t) => /\ Succeeded(t)'
                             /\ attempts'[t] = attempts[t]
                             /\ posts'[t] = posts[t]]_vars

\* Two tasks ended Succeeded and one ended Failed; the history holds the two.
C27_Witness ==
    /\ gather = "returned"
    /\ Cardinality({ t \in Tasks : Succeeded(t) }) = 2
    /\ \E t \in Tasks : Failed(t)
    /\ Len(history) = 2
    /\ history[1] # history[2]

\* C28 (as claimed): the record of a Failed task has a null success marker
\* and none of the remote fields, and every record whose success marker is
\* "ok" carries the remote fields.
C28_NoMixedRecord ==
    \A t \in Tasks :
        returned[t] = "record" =>
            /\ Failed(t) => file_metadata[t].remote = <<>>
            /\ file_metadata[t].uploadSuccess \in {PyNone, S_ok}
            /\ Succeeded(t) => file_metadata[t].remote = RemoteFields

\* What the code ensures: a record is either as it was built (null marker, no
\* remote field) or marked "ok", with whatever the data of the response held.
C28_FailedRecordBare ==
    \A t \in Tasks :
        returned[t] = "record" =>
            \/ file_metadata[t] = NewMetadata
            \/ Succeeded(t)

\* C29 (as claimed): every request being answered, every task is admitted and
\* ends Succeeded or Failed, and upload_files returns, whatever the number of
\* slots.
C29_EveryTaskEndsAndReturns ==
    <>(/\ gather = "returned"
       /\ \A t \in Tasks : Succeeded(t) \/ Failed(t))

\* What the code ensures: unless the process exits on a rate limit, every
\* coroutine ends, every slot taken is given back, and gather ends.
C29_EveryCoroutineEnds ==
    <>[](\/ gather = "aborted"
         \/ /\ \A t \in Tasks : returned[t] # "running"
            /\ sem = connections
            /\ gather \in {"returned", "raised"})

\* C6 (as claimed): when upload_files ends, its result list holds one outcome
\* record for every path, marked success or failure.
C6_OneOutcomePerPath ==
    gather \in {"returned", "raised"} =>
        /\ gather = "returned"
        /\ Len(responses) = NumTasks
        /\ \A t \in Tasks : ~responses[t].none

\* C7 (as claimed): an error of one file's task (here: the file does not
\* exist when upload_file is called) does not keep upload_files from
\* returning the results of the sibling tasks.
C7_ErrorConfined ==
    (\E t \in Tasks : returned[t] = "raised") => gather # "raised"

\* The host a task was routed to: the first of the names it was given.
Routed(t) == servers[t] # PyNone /\ servers[t] # <<>>
ServerOf(t) == servers[t][1]

\* C11: the session map holds at most one connection per server name; a
\* connection is created only the first time a task is routed to the host, is
\* never replaced, and every task routed to the host posts on that connection.
C11_OneSessionPerServer ==
    /\ sessionsMade = Cardinality({ s \in Servers : server_sessions[s] # 0 })
    /\ \A s1, s2 \in Servers :
           (server_sessions[s1] # 0 /\ server_sessions[s1] = server_sessions[s2]) => s1 = s2
    /\ \A t \in Tasks :
           Routed(t) => (taskSession[t] # 0 /\ taskSession[t] = server_sessions[ServerOf(t)])

\* Two tasks were routed to one host and a third to the other.
C11_Witness ==
    \E t1, t2, t3 \in Tasks :
        /\ t1 # t2
        /\ Routed(t1) /\ Routed(t2) /\ Routed(t3)
        /\ ServerOf(t1) = ServerOf(t2)
        /\ ServerOf(t3) # ServerOf(t1)
        /\ posts[t1] = 1 /\ posts[t2] = 1
        /\ taskSession[t1] = taskSession[t2]
        /\ taskSession[t3] # taskSession[t1]

\* C12: a task that was given an empty server list has ended Failed, has sent
\* no upload POST, and has asked for servers no more often than the limit allows.
C12_EmptyDiscoveryFails ==
    \A t \in Tasks :
        servers[t] = <<>> =>
            /\ pc[t] = "done"
            /\ Failed(t)
            /\ posts[t] = 0
            /\ taskSession[t] = 0
            /\ attempts[t] <= retriesLimit

\* A task was given an empty list under the largest retry limit.
C12_Witness ==
    \E t \in Tasks :
        /\ servers[t] = <<>>
        /\ retriesLimit = MaxRetries
        /\ Failed(t)

-----------------------------------------------------------------------------
\* Claims about the response check (specification SpecResp).

RateLimited(r) == "status" \in r.fields /\ Contains(S_error_rateLimit, r.status)
NotOk(r) == r # NetworkError /\ GetStatus(r) # S_ok

C9_NotOkIsAnError ==
    (outcome # "pending" /\ NotOk(answer)) => outcome # "return"

-----------------------------------------------------------------------------
\* Claims about reconciliation (specification SpecRecon).

\* The checksum history agrees with the files: no file changed after its
\* checksum was recorded.
SumsCurrent == \A q \in LocalPaths : md5_sums[q] \in {"absent", content[q]}

\* Run r ended, the run before it ended with every file stored or skipped, and
\* the local files are unchanged.
SecondRun(r) ==
    r > 1 /\ run = r /\ phase = "done" /\ (r - 1) \in cleanRuns /\ SumsCurrent

\* C3: a run that follows a complete run on the same folder with the same
\* local files starts no transfer: every local file is skipped because its
\* hash is among the folder's file entries.
C3_SecondRunTransfersNothing ==
    \A r \in Runs : SecondRun(r) => (transfers[r] = 0 /\ paths = {})

\* What does hold: the second run transfers nothing when the listing it was
\* given is the folder's current content.
C3_CurrentListingTransfersNothing ==
    \A r \in Runs :
        (SecondRun(r) /\ r \notin staleRuns) => (transfers[r] = 0 /\ paths = {})

\* The local files, and the hashes the run holds for them.
LocalFiles == { q \in LocalPaths : is_file[q] }
LocalHashes == { sums[q] : q \in LocalFiles }
\* The hashes of the file entries of a folder or listing.
FileHashes(folder) == { e.md5 : e \in { x \in Range(folder.children) : x.type = "file" } }

\* C20: get_md5_sums_for_files returns a hash for every local file of its
\* input; a file whose path is in the cache gets the cached hash and is not
\* read, and only a file whose path is not in the cache is read and hashed.
C20_CachedSumsNotComputed ==
    phase \in {"hashed", "reconciled", "renaming", "uploading", "done"} =>
        /\ \A q \in LocalFiles :
              /\ sums[q] # "absent"
              /\ checksums.cache[q] # "absent" =>
                    (sums[q] = checksums.cache[q] /\ q \notin checksums.read)
              /\ checksums.cache[q] = "absent" =>
                    (sums[q] = checksum(q) /\ q \in checksums.read)
        /\ checksums.read \subseteq LocalFiles

\* Two local files, one whose cached hash is no longer the hash of its content
\* and one that the cache does not have: the first keeps the cached hash
\* unread, the second is read.
C20_Witness ==
    /\ phase = "hashed"
    /\ LocalFiles = LocalPaths
    /\ \E q \in LocalFiles :
          /\ checksums.cache[q] # "absent"
          /\ checksums.cache[q] # content[q]
          /\ sums[q] = checksums.cache[q]
    /\ \E q \in LocalFiles : q \in checksums.read

\* C21: no step of any run changes or removes an entry that the checksum cache
\* already has; a step only adds entries for paths that had none.
C21_CacheEntriesKept ==
    [][\A q \in LocalPaths :
          /\ persisted[q] # "absent" => persisted'[q] = persisted[q]
          /\ (run' = run /\ md5_sums[q] # "absent") => md5_sums'[q] = md5_sums[q]]_vars

\* The second run has hashed: an entry that is not the hash of its file's
\* content is still what the cache held before, and the cache has gained an
\* entry or the path b, not a file, has kept its own.
C21_Witness ==
    /\ run = 2
    /\ phase = "hashed"
    /\ \E q \in LocalFiles :
          /\ checksums.cache[q] # "absent"
          /\ md5_sums[q] = checksums.cache[q]
          /\ md5_sums[q] # content[q]
    /\ \/ checksums.read # {}
       \/ ~is_file["b"] /\ md5_sums["b"] # "absent"

\* C22: when a local file cannot be read while its checksum is computed, the
\* run goes on without it: it does not end with the exception, the other local
\* files have their hashes, and the unreadable file is not among the upload
\* tasks.
C22_UnreadableFileIsolated ==
    checksums.failed # {} =>
        /\ phase # "raised"
        /\ \A q \in LocalFiles \ checksums.failed : sums[q] # "absent"
        /\ paths \cap checksums.failed = {}

\* A step that sends the make-public update of run r.
PublicUpdateSent(r) == publicCalls'[r] # publicCalls[r]

\* C23: the make-public update of the target folder is sent at most once in a
\* run, before any transfer of the run has started, and only when public was
\* requested, the folder is not the account's root and the folder is not
\* public already.
C23_PublicUpdateOnlyWhenNeeded ==
    [][\A r \in Runs :
          PublicUpdateSent(r) =>
              /\ publicCalls[r] = 0 /\ publicCalls'[r] = 1
              /\ transfers[r] = 0 /\ transfers'[r] = 0
              /\ make_public
              /\ ~targetIsRoot
              /\ ~remote.public]_vars

\* The same, the folder's visibility read off the listing the run obtained.
C23_PublicUpdateOnListing ==
    [][\A r \in Runs :
          PublicUpdateSent(r) =>
              /\ publicCalls[r] = 0 /\ publicCalls'[r] = 1
              /\ transfers[r] = 0 /\ transfers'[r] = 0
              /\ make_public
              /\ ~targetIsRoot
              /\ ~folder_id_contents.public]_vars

\* The get_md5_sums_for_files call of the run has returned.
SumsReturned == sums # NoSums

\* C31: once the checksums of a run have been returned, so before the skip
\* list is made and before any transfer, every hash the run computed is in the
\* cache and in the config file on disk, and stays there whatever step fails
\* afterwards.
C31_ComputedSumsPersisted ==
    SumsReturned =>
        \A q \in checksums.read :
            /\ md5_sums[q] = checksum(q)
            /\ persisted[q] = checksum(q)

\* A run computed a hash and then failed in a later step (the make-public
\* update or a rename), or a transfer of it failed: the hash is on disk.
C31_Witness ==
    /\ SumsReturned
    /\ checksums.read # {}
    /\ \/ phase = "raised"
       \/ phase = "done" /\ uploaded # paths
    /\ \A q \in checksums.read : persisted[q] = checksum(q)

\* C13: when the target folder holds no file with the hash of a local file,
\* every local file becomes an upload task; and when every task's transfer
\* succeeded, the result list has exactly one entry per local file, each with
\* the success marker set.
C13_NoMatchUploadsAll ==
    /\ (phase \in {"reconciled", "renaming"} /\ FileHashes(remote) \cap LocalHashes = {})
           => LocalFiles \subseteq paths
    /\ (phase = "done" /\ paths = LocalPaths /\ uploaded = paths)
           => /\ Len(results) = Cardinality(LocalFiles)
              /\ \A q \in LocalFiles :
                     \E i \in 1..Len(results) :
                         /\ results[i].filePath = q
                         /\ results[i].uploadSuccess = S_ok
                         /\ \A j \in 1..Len(results) : results[j].filePath = q => j = i

\* The scenario of section 8: two files with the hashes H1 and H2, an empty
\* folder, both stored: two results with the success marker.
C13_Witness ==
    /\ phase = "done"
    /\ run = 1
    /\ LocalFiles = LocalPaths
    /\ content["a.txt"] = "H1" /\ content["b"] = "H2"
    /\ folder_id_contents.children = <<>>
    /\ uploaded = LocalPaths
    /\ Len(results) = 2
    /\ \A i \in 1..2 : results[i].uploadSuccess = S_ok

\* The run has its skip list.
Partitioned == phase \in {"reconciled", "renaming", "uploading", "done"}

\* C14: a local file is skipped if and only if its hash is the hash of a
\* file-type child in the listing of the target folder, whatever the names and
\* the folder-type children; every other local path is an upload task, and no
\* skipped path is uploaded.
C14_SkippedIffHashListed ==
    Partitioned =>
        /\ \A q \in LocalFiles : (q \notin paths) <=> (sums[q] \in FileHashes(folder_id_contents))
        /\ LocalPaths \ LocalFiles \subseteq paths
        /\ pending \subseteq paths
        /\ uploaded \subseteq paths
        /\ phase = "done" => { results[i].filePath : i \in 1..Len(results) } = paths

\* One file is skipped although the listing holds its name under no entry, the
\* other is uploaded although a folder-type child bears its name.
C14_Witness ==
    /\ phase = "done"
    /\ LocalFiles = LocalPaths
    /\ "a.txt" \notin paths
    /\ \A e \in Range(folder_id_contents.children) : e.type = "file" => e.name # "a.txt"
    /\ "b" \in uploaded
    /\ \E e \in Range(folder_id_contents.children) : e.type = "folder" /\ e.name = "b"

\* The renames of the run have all been requested.
Reconciled == rename_existing /\ renameQueue = <<>> /\ phase \in {"renaming", "uploading", "done"}

\* The name the folder now holds for the entry with this id.
RemoteName(id) == (CHOOSE e \in Range(remote.children) : e.id = id).name

\* A listed file entry with another name than the local file q.
Duplicate(q, e, hash) ==
    /\ is_file[q]
    /\ e.type = "file"
    /\ e.md5 = hash
    /\ e.name # q

OnlyFileWithItsHash(q) ==
    \A o \in LocalPaths \ {q} : ~(is_file[o] /\ sums[o] = sums[q])

RunRenamePlan == RenamePlan(PathOrder, LocalPaths \ paths, folder_id_contents, sums)

\* The rename requests made, without their outcomes.
Requests(made) == [i \in 1..Len(made) |-> [id |-> made[i].id, name |-> made[i].name]]

\* C32: a failed rename does not end the run: the match is reported with
\* renamed = FALSE, every other queued rename is requested all the same, and the
\* upload tasks of the run are started and all run to their end.
C32_FailedRenameGoesOn ==
    (rename_existing /\ renameFailed # {}) =>
        /\ phase \in {"renaming", "uploading", "done"}
        /\ \A id \in renameFailed :
               \E i \in 1..Len(renameResults) :
                   renameResults[i].id = id /\ ~renameResults[i].renamed
        /\ Requests(renameResults) \o renameQueue = RunRenamePlan
        /\ phase \in {"uploading", "done"} =>
               /\ Len(renameResults) = Len(RunRenamePlan)
               /\ pending \subseteq paths
        /\ phase = "done" =>
               /\ pending = {}
               /\ { results[i].filePath : i \in 1..Len(results) } = paths

\* The first of two renames failed, the second one was made, and the file that
\* was not skipped was uploaded.
C32_Witness ==
    /\ phase = "done"
    /\ Len(renameResults) = 2
    /\ ~renameResults[1].renamed
    /\ renameResults[2].renamed
    /\ RemoteName(renameResults[2].id) = renameResults[2].name
    /\ paths # {}
    /\ uploaded = paths

\* C37: an entry of the uploaded directory that is not a regular file gets no
\* hash, even with an entry in the cache, and is not read; it is never skipped,
\* so it is among the paths handed to the scheduler, a task is started for it,
\* and the run ends with a record of it.
C37_NonFileEntryBecomesTask ==
    \A q \in LocalPaths \ LocalFiles :
        /\ sums[q] = "absent"
        /\ checksums # NoChecksums => q \notin checksums.read
        /\ Partitioned => q \in paths
        /\ phase = "uploading" => pending \subseteq paths
        /\ phase = "done" =>
               /\ q \notin uploaded
               /\ \E i \in 1..Len(results) :
                      results[i].filePath = q /\ results[i].uploadSuccess = PyNone

\* "b" is a directory whose cache entry is the hash of a file of the listing;
\* a.txt was skipped and the run ended with a record of b.
C37_Witness ==
    /\ ~is_file["b"]
    /\ phase = "done"
    /\ md5_sums["b"] \in FileHashes(folder_id_contents)
    /\ paths = {"b"}
    /\ Len(results) = 1
    /\ results[1].filePath = "b"

-----------------------------------------------------------------------------
\* Claims about account set-up (specification SpecInit).

\* The sessions for the metadata host that the client holds in self.session.
MetadataSessions == {"constructed", "replacement"}

\* The sessions of a set that are open.
OpenSessions(names) == { n \in names : sessions[n].state = "open" }

\* C25 (as stated): init with no token creates an account, after which the
\* token and the account id are set, and at no time is more than one session
\* for the metadata host open.
C25_OneMetadataConnection ==
    /\ Cardinality(OpenSessions(SessionNames)) <= 1
    /\ (initPc = "done" /\ sessions["constructed"].auth = "None") =>
          (account.token = "new" /\ account.account_id)

\* C25 (amended): init with no token creates an account, after which the token
\* and the account id are set; the session made at construction is closed
\* before the session with the new token is made, so at no time are two of
\* the sessions the client keeps in self.session open.  The request that
\* creates the account goes over a session of its own, open while the
\* constructed one still is.
C25_NewAccountOneSession ==
    /\ Cardinality(OpenSessions(MetadataSessions)) <= 1
    /\ sessions["replacement"].state # "unmade" =>
          /\ sessions["constructed"].state = "closed"
          /\ sessions["replacement"].auth = "new"
          /\ account.token = "new"
          /\ account.account_id
    /\ (initPc = "done" /\ sessions["constructed"].auth = "None") =>
          /\ account.token = "new"
          /\ account.account_id
          /\ self_session = "replacement"

\* init has returned for a client constructed without a token.
C25_Witness ==
    /\ initPc = "done"
    /\ account.token = "new"
    /\ account.account_id
    /\ sessions["constructed"].state = "closed"
    /\ sessions["replacement"].state = "open"

-----------------------------------------------------------------------------
\* Claims about option resolution (specification SpecCli).

\* The config file is in use: --no-use-config was not given.
UsesConfig == argv["use_config"] # "False"

\* The value the local config file gives an option, "absent" if none.
ConfigValue(k) ==
    IF UsesConfig /\ config_file.state = "valid" /\ config_file[k] # "None"
    THEN config_file[k]
    ELSE "absent"

\* The built-in default of an option: default_cli_options, else the
\* default of its add_argument.
BuiltinDefault(k) ==
    IF default_cli_options[k] # "absent" THEN default_cli_options[k] ELSE argparse_default[k]

\* The value of an option by precedence: command line, local config, default.
ByPrecedence(k) ==
    IF argv[k] # "unset" THEN argv[k]
    ELSE IF ConfigValue(k) # "absent" THEN ConfigValue(k)
    ELSE BuiltinDefault(k)

\* C24: cli() returns every option by precedence (command line over local
\* config over built-in default, an unset level never overriding a lower one),
\* and with --no-use-config the config file is not read and both config paths
\* are None.
C24_OptionsByPrecedence ==
    cliStep = "returned" =>
        /\ \A k \in ConfigOptions : combined_options[k] = ByPrecedence(k)
        /\ ~UsesConfig =>
              /\ ~configRead
              /\ combined_options["config_file_path"] = "None"
              /\ combined_options["config_directory"] = "None"

\* The same for the options whose add_argument has no default of its own.
C24_PrecedenceWithoutArgparseDefault ==
    cliStep = "returned" =>
        /\ \A k \in ConfigOptions :
              argparse_default[k] = "None" => combined_options[k] = ByPrecedence(k)
        /\ ~UsesConfig =>
              /\ ~configRead
              /\ combined_options["config_file_path"] = "None"
              /\ combined_options["config_directory"] = "None"

-----------------------------------------------------------------------------
\* Claims about the run's connections (specification SpecMain).

\* C10: when the run has ended, the metadata connection and every host
\* connection opened during the run were each closed exactly once.
C10_ClosedExactlyOnce ==
    step = "ended" =>
        /\ apiSession.closed /\ apiSession.closeCalls = 1
        /\ \A s \in Servers :
               hostSessions[s].opened =>
                   (hostSessions[s].closed /\ hostSessions[s].closeCalls = 1)

\* What does hold: no connection is left open when the run has ended, and no
\* host connection is closed twice.
NoneLeftOpen ==
    step = "ended" =>
        /\ apiSession.closed
        /\ \A s \in Servers :
               hostSessions[s].opened =>
                   (hostSessions[s].closed /\ hostSessions[s].closeCalls = 1)

InitFailed == initResult \in {"early", "details", "late"}

\* upload_files can be entered.
UploadFilesNext ==
    ENABLED (\E failure \in Failures, n \in 0..MaxPaths, creates \in BOOLEAN,
                updates \in BOOLEAN : Prepare(failure, n, creates, updates))

\* C38 (as claimed): whenever GofileIOUploader.init caught a failure, it has
\* returned, the metadata session is closed, the root folder id is unset, and
\* the run, unless a dry run, goes on to upload_files.
C38_FailedInitLeavesRootUnset ==
    InitFailed =>
        /\ step # "start"
        /\ apiSession.closed
        /\ ~rootKnown
        /\ (step = "inited" /\ ~args.dry_run) => UploadFilesNext

\* C38 (amended): whenever GofileIOUploader.init caught a failure, it has
\* returned and the metadata session is closed; the run goes on to upload_files
\* unless it is a dry run; the root folder id is unset when api.init failed
\* before reading the account's details or when there is no token, and set
\* when the failure came after that.
C38_FailedInitCaughtAndClosed ==
    InitFailed =>
        /\ step # "start"
        /\ apiSession.closed /\ apiSession.closeCalls >= 1
        /\ rootKnown <=> (args.token /\ initResult \in {"details", "late"})
        /\ step = "inited" => (UploadFilesNext <=> ~args.dry_run)

\* api.init failed at its first request: the root folder id is unset, the
\* session closed, and the upload tasks are running.
C38_Witness ==
    /\ initResult = "early"
    /\ ~rootKnown
    /\ apiSession.closed
    /\ step = "gathering"
    /\ tasksLeft # {}

\* C19: under dry-run the run sends no create-folder request, no attribute
\* update and no upload, and appends nothing to the upload history.
C19_DryRunChangesNothing == args.dry_run => sent = {}

\* A dry run has ended, with init done and the connection closed.
C19_Witness ==
    /\ args.dry_run
    /\ step = "ended"
    /\ apiSession.closed
    /\ sent = {}

-----------------------------------------------------------------------------
\* Claims about folder resolution (specification SpecFolder).

\* Calls i and i+1 of get_folder_id resolved the same folder name and both
\* returned.  (The empty string names no folder: the service picks the name of
\* a folder created for it.)
SameNameTwice(i) ==
    /\ i + 1 <= Len(resolutions)
    /\ resolutions[i].folder = resolutions[i + 1].folder
    /\ resolutions[i].folder # S_empty
    /\ resolutions[i].result.kind # "raised"
    /\ resolutions[i + 1].result.kind # "raised"

\* C5 (as claimed): resolving the same folder name twice in a row returns the
\* same folder ID both times and the second resolution creates no folder.
C5_StableResolution ==
    \A i \in 1..Len(resolutions) :
        SameNameTwice(i) =>
            /\ resolutions[i + 1].result = resolutions[i].result
            /\ ~resolutions[i + 1].created
\* What holds of the code: the resolution is stable when the listing served to
\* the second call is current.
C5_StableOnCurrentListing ==
    \A i \in 1..Len(resolutions) :
        (SameNameTwice(i) /\ resolutions[i + 1].served # "cache") =>
            /\ resolutions[i + 1].result = resolutions[i].result
            /\ ~resolutions[i + 1].created

\* C15: get_folder_id without a folder name, on an account whose root folder
\* is known, returns the root folder's ID and makes no request.
C15_NoFolderGivesRoot ==
    \A i \in 1..Len(resolutions) :
        (resolutions[i].folder = PyNone /\ token /\ root_folder_id # 0) =>
            /\ resolutions[i].result = Returned("id", RootId, S_empty)
            /\ ~resolutions[i].created
            /\ resolutions[i].calls = 0
            /\ resolutions[i].served = "nothing"

C15_Witness ==
    \E i \in 1..Len(resolutions) :
        /\ resolutions[i].folder = PyNone
        /\ token /\ root_folder_id = RootId
        /\ resolutions[i].result.id = RootId
        /\ createCalls = 0

\* C16: get_folder_id with a UUID-v4 string returns the string unchanged and
\* makes no request: no listing and no creation, whatever the root holds.
C16_UuidReturnedUnchanged ==
    \A i \in 1..Len(resolutions) :
        resolutions[i].folder = N_uuid =>
            /\ resolutions[i].result = Returned("given", 0, N_uuid)
            /\ ~resolutions[i].created
            /\ resolutions[i].calls = 0
            /\ resolutions[i].served = "nothing"

\* The UUID was resolved with and without a token; no folder bears its name.
C16_Witness ==
    \E i \in 1..Len(resolutions) :
        /\ resolutions[i].folder = N_uuid
        /\ resolutions[i].result.name = N_uuid
        /\ resolutions[i].existing = {}
        /\ token

\* Call i was given a name for the search: not None, not taken for a UUID, not
\* the root's own name; the account is known and the call returned.
NameSearched(i) ==
    /\ resolutions[i].folder # PyNone
    /\ ~MatchesUuid4(resolutions[i].folder)
    /\ resolutions[i].folder # N_root
    /\ token
    /\ resolutions[i].result.kind # "raised"

\* C17: get_folder_id with the name of a folder-type child of the root returns
\* that child's ID and creates nothing; a file-type child is no match.
C17_ExistingFolderReused ==
    \A i \in 1..Len(resolutions) :
        (NameSearched(i) /\ resolutions[i].existing # {}) =>
            /\ resolutions[i].result.kind = "id"
            /\ resolutions[i].result.id \in resolutions[i].existing
            /\ ~resolutions[i].created
            /\ resolutions[i].calls = 0

\* What holds of the code: the folder is reused when the listing is current.
C17_ReusedOnCurrentListing ==
    \A i \in 1..Len(resolutions) :
        (NameSearched(i) /\ resolutions[i].existing # {} /\ resolutions[i].served = "fresh") =>
            /\ resolutions[i].result.kind = "id"
            /\ resolutions[i].result.id \in resolutions[i].existing
            /\ ~resolutions[i].created
            /\ resolutions[i].calls = 0

\* C18: get_folder_id with a name that is neither the root's nor that of a
\* child folder sends exactly one create request and returns the ID of the new
\* folder, an ID no folder had before; the new folder is a child of the root.
C18_MissingFolderCreatedOnce ==
    \A i \in 1..Len(resolutions) :
        (NameSearched(i) /\ resolutions[i].existing = {}) =>
            /\ resolutions[i].calls = 1
            /\ resolutions[i].created
            /\ resolutions[i].result.kind = "id"
            /\ resolutions[i].result.id \notin resolutions[i].ids
            /\ \E j \in 1..Len(rootChildren) :
                   /\ rootChildren[j].id = resolutions[i].result.id
                   /\ rootChildren[j].type = "folder"
                   /\ rootChildren[j].name = CreatedName(resolutions[i].folder)

\* docs was created although the root holds a file named docs.
C18_Witness ==
    \E i \in 1..Len(resolutions) :
        /\ NameSearched(i)
        /\ resolutions[i].folder = N_docs
        /\ resolutions[i].created
        /\ \E j \in 1..Len(rootChildren) :
               rootChildren[j].type = "file" /\ rootChildren[j].name = N_docs

\* The folders below the root's children that bear a name.
NestedNamed(name) == { f.id : f \in { g \in nested : g.name = name } }

\* C30: a name that only a folder two or more levels below the root bears is
\* not resolved to that folder: get_folder_id creates a folder with the name
\* directly under the root and returns the new folder's id.
C30_OnlyRootChildrenSearched ==
    \A i \in 1..Len(resolutions) :
        LET r == resolutions[i]
        IN (/\ NameSearched(i)
            /\ r.existing = {}
            /\ NestedNamed(r.folder) # {}
            /\ r.result.kind # "raised")
           => /\ r.result.kind = "id"
              /\ r.result.id \notin NestedNamed(r.folder)
              /\ r.result.id \notin r.ids
              /\ r.created /\ r.calls = 1
              /\ r.result.id \in FoldersNamed(r.folder)

\* docs exists only inside the root's child pics; get_folder_id(docs) made a
\* new docs under the root.
C30_Witness ==
    \E i \in 1..Len(resolutions) :
        /\ resolutions[i].folder = N_docs
        /\ resolutions[i].existing = {}
        /\ NestedNamed(N_docs) # {}
        /\ resolutions[i].created
        /\ resolutions[i].result.id \in FoldersNamed(N_docs)

\* C34: a call that listed the root for a name that is the root's own name and
\* also the name of a child folder of the root returns the root's id, not the
\* child's, and sends no create request.
C34_RootNameBeforeChildren ==
    \A i \in 1..Len(resolutions) :
        LET r == resolutions[i]
        IN (/\ r.folder = N_root
            /\ r.existing # {}
            /\ r.served # "nothing"
            /\ r.result.kind # "raised")
               => /\ r.result = Returned("id", RootId, S_empty)
                  /\ r.result.id \notin r.existing
                  /\ ~r.created
                  /\ r.calls = 0

\* Such a call was made, on a fresh listing, and the root still has the one
\* folder of its name.
C34_Witness ==
    \E i \in 1..Len(resolutions) :
        /\ resolutions[i].folder = N_root
        /\ resolutions[i].existing = {2}
        /\ resolutions[i].served = "fresh"
        /\ resolutions[i].result = Returned("id", RootId, S_empty)
        /\ FoldersNamed(N_root) = {2}
        /\ createCalls = 0

\* A UUID of version 4 followed by the characters of a name.
LongUuidName == N_uuid \o N_docs

\* C35: the UUID test looks at the beginning of the name only: a name that
\* starts with a lower-case UUID of version 4 and goes on with other characters
\* is returned as it was given, with no listing and no create request, with or
\* without a token.
C35_UuidPrefixReturnedUnchanged ==
    \A i \in 1..Len(resolutions) :
        LET r == resolutions[i]
        IN r.folder = LongUuidName
              => /\ r.result = Returned("given", 0, LongUuidName)
                 /\ r.served = "nothing"
                 /\ ~r.created
                 /\ r.calls = 0

\* With a token and a listable root, the long name was returned unchanged and
\* no folder was made for it.
C35_Witness ==
    /\ token /\ root_folder_id = RootId /\ ~ContentRefused
    /\ Len(LongUuidName) > 36
    /\ \E i \in 1..Len(resolutions) :
           /\ resolutions[i].folder = LongUuidName
           /\ resolutions[i].result.kind = "given"
           /\ resolutions[i].result.name = LongUuidName
    /\ createCalls = 0
    /\ FoldersNamed(LongUuidName) = {}

-----------------------------------------------------------------------------
Init == InitSched /\ IdleResp /\ IdleFolder /\ IdleRecon /\ IdleMain /\ IdleCli /\ IdleInit
Next == NextSched
Spec == Init /\ [][Next]_vars

\* The event loop runs every coroutine that is ready, the semaphore wakes its
\* waiters, and every request is answered or fails.
Fairness ==
    /\ \A t \in Tasks :
          /\ WF_vars(Start(t))
          /\ WF_vars(Admit(t))
          /\ WF_vars(\E reply \in ServersReplies, readable \in BOOLEAN :
                         ServersReply(t, reply, readable))
          /\ WF_vars(\E reply \in UploadReplies : PostReply(t, reply))
    /\ WF_vars(GatherReturn)
    /\ WF_vars(GatherRaise)
SpecLive == Spec /\ Fairness

\* A remote operation of api.py applied to every shape of response.
InitR == InitResp /\ IdleSched /\ IdleFolder /\ IdleRecon /\ IdleMain /\ IdleCli /\ IdleInit
SpecResp == InitR /\ [][NextResp]_vars

\* get_folder_id called repeatedly on one account (gofile_uploader.py).
InitF == InitFolder /\ IdleSched /\ IdleResp /\ IdleRecon /\ IdleMain /\ IdleCli /\ IdleInit
SpecFolder == InitF /\ [][NextFolder]_vars

\* upload_files run repeatedly on the same files and folder (gofile_uploader.py).
InitU == InitRecon /\ IdleSched /\ IdleResp /\ IdleFolder /\ IdleMain /\ IdleCli /\ IdleInit
SpecRecon == InitU /\ [][NextRecon]_vars

\* One run of the program from construction to the end of async_main.
InitM == InitMain /\ IdleSched /\ IdleResp /\ IdleFolder /\ IdleRecon /\ IdleCli /\ IdleInit
SpecMain == InitM /\ [][NextMain]_vars

\* One call of cli() on every command line and every local config file.
InitC == InitCli /\ IdleSched /\ IdleResp /\ IdleFolder /\ IdleRecon /\ IdleMain /\ IdleInit
SpecCli == InitC /\ [][NextCli]_vars

\* GofileIOAPI constructed with or without a token, then init().
InitI == InitApi /\ IdleSched /\ IdleResp /\ IdleFolder /\ IdleRecon /\ IdleMain /\ IdleCli
SpecInit == InitI /\ [][NextInit]_vars
====
